---- MODULE Spec2Model ----
(***************************************************************************)
(* Message extraction from a cursor-agent store.db and its full-history    *)
(* cache (cursor_cli_manager/agent_store.py).                              *)
(*                                                                         *)
(* A blob is a sequence of bytes.  A byte is written as a one-character    *)
(* string; "x00" is the NUL framing byte and "xFF" a byte that is not      *)
(* valid UTF-8.  Positions are 0-based as in the source: At(data, i) is    *)
(* data[i].  A Python str is the sequence of its characters.  An Optional  *)
(* value is <<>> (None) or <<v>>.                                          *)
(*                                                                         *)
(* Loops over bytes are run by halving the remaining iteration budget      *)
(* (the Run... operators): the result is that of running the loop body in  *)
(* order, the evaluation stack stays logarithmic in the buffer length.     *)
(***************************************************************************)
EXTENDS Integers, Sequences, FiniteSets, TLC

None == <<>>
Some(v) == <<v>>

Min(S) == CHOOSE x \in S : \A y \in S : x <= y
Max(S) == CHOOSE x \in S : \A y \in S : x >= y

\* the least or greatest element of S, d where S is empty
MinOr(S, d) == IF S = {} THEN d ELSE Min(S)
MaxOr(S, d) == IF S = {} THEN d ELSE Max(S)

IntMax(a, b) == IF a >= b THEN a ELSE b
IntMin(a, b) == IF a <= b THEN a ELSE b

At(data, i) == data[i + 1]

\* data[lo:hi] (Python slice, 0 <= lo)
Slice(data, lo, hi) == SubSeq(data, lo + 1, IF hi > Len(data) THEN Len(data) ELSE hi)

\* data[i:i+1], "" past the end
Ch(data, i) == IF i >= 0 /\ i < Len(data) THEN data[i + 1] ELSE ""

StartsAt(data, pat, k) ==
    /\ k >= 0
    /\ k + Len(pat) <= Len(data)
    /\ \A t \in 1..Len(pat) : data[k + t] = pat[t]

\* bytes.find(pat, i): lowest k >= i with data[k:k+len(pat)] == pat, else -1
Find(data, pat, i) == MinOr({k \in i..(Len(data) - Len(pat)) : StartsAt(data, pat, k)}, -1)

\* bytes.rfind(pat, lo, hi): highest k with lo <= k and k+len(pat) <= hi, else -1
RFind(data, pat, lo, hi) ==
    MaxOr({k \in lo..(IntMin(hi, Len(data)) - Len(pat)) : StartsAt(data, pat, k)}, -1)

Contains(data, pat) == Find(data, pat, 0) # -1

LBRACE == "{"
RBRACE == "}"
QUOTE == "\""
BACKSLASH == "\\"

\* agent_store.py:244  _ROLE_MARKER = b"\"role\""
ROLE_MARKER == <<"\"", "r", "o", "l", "e", "\"">>

(***************************************************************************)
(* chunk.decode("utf-8") and json.loads, as CPython's json.decoder does    *)
(* them (strict mode), over the bytes of the model's alphabet, with the    *)
(* interpreter's recursion limit: a call made too deep in the stack, or on *)
(* containers nested too deep, raises RecursionError.                      *)
(***************************************************************************)
\* every byte of the alphabet but "xFF" is an ASCII byte
Utf8Ok(chunk) == \A k \in 1..Len(chunk) : chunk[k] # "xFF"

JsonWs == {" ", "\t", "\n", "\r"}
\* the characters below U+0020
ControlChars == {"x00", "x08", "\t", "\n", "\f", "\r"} \cup {"\\u" \o ToString(c) : c \in 1..31}
Digits == {"0", "1", "2", "3", "4", "5", "6", "7", "8", "9"}
HexDigits == Digits \cup {"a", "b", "c", "d", "e", "f", "A", "B", "C", "D", "E", "F"}

NoValue == [t |-> "none", v |-> <<>>]
\* exc is the exception a failed scan raises: json.JSONDecodeError, the
\* ValueError of int() on more digits than sys.get_int_max_str_digits(), the
\* RecursionError of a call the interpreter's stack has no room for, or the
\* StopIteration the scanner raises where no value starts
JFail == [ok |-> FALSE, v |-> NoValue, end |-> -1, exc |-> "JSONDecodeError"]
JIntTooLong == [JFail EXCEPT !.exc = "ValueError"]
JTooDeep == [JFail EXCEPT !.exc = "RecursionError"]
JStop == [JFail EXCEPT !.exc = "StopIteration"]

\* sys.getrecursionlimit()
RecursionLimit == 1000

\* a call made with depth levels of the interpreter's stack in use that
\* takes levels more raises RecursionError
TooDeep(depth, levels) == depth + levels >= RecursionLimit

\* raise JSONDecodeError(...) with depth levels in use: the call of the
\* class and its __init__ take two
Raise(depth) == IF TooDeep(depth, 2) THEN JTooDeep ELSE JFail

\* the scanner's raise_errmsg with depth levels in use, one more than a raise
\* in Python code
raise_errmsg(depth) == Raise(depth + 1)

\* the Python frames in use where a public function of the module is called
CallerFrames == 1

\* the frames in use in a function's body, one for each function between
\* the caller and the body.  An operator that models a function or a part
\* of one takes them as its last argument, frames, and passes frames + 1 to
\* the functions and generators it calls.
\* _op under a public function and _with_ro_connection (lines 47, 168, 661,
\* 673, 713, 725, 753, 773)
OpFrames == CallerFrames + 3
\* _maybe_decode_hex_json (lines 95 and 99) under _op and
\* _read_chat_meta_from_connection
MetaFrames == OpFrames + 2
\* _extract_messages_from_connection under _op of an extraction
ExtractFrames == OpFrames + 1
\* _iter_embedded_json_objects (line 229) and
\* _iter_message_objects_role_anchored under it
EmbeddedFrames == ExtractFrames + 1
AnchoredFrames == ExtractFrames + 1
\* _parse_json_dict_from_span (line 361) under the role-anchored generator
\* and _find_enclosing_message_obj_around_role
SpanFrames == AnchoredFrames + 2
\* _extract_last_message_preview_from_connection under _op (lines 751, 770):
\* the scan of the root blob (line 599) and the fallback extraction (line
\* 614) run one frame below it
PreviewFrames == OpFrames + 1
JOk(val, e) == [ok |-> TRUE, v |-> val, end |-> e, exc |-> ""]
JStr(chars) == [t |-> "str", v |-> chars]

INFINITY == <<"I", "n", "f", "i", "n", "i", "t", "y">>

\* json.decoder.BACKSLASH
Unescape(e) ==
    CASE e = "\"" -> "\""
      [] e = "\\" -> "\\"
      [] e = "/" -> "/"
      [] e = "b" -> "x08"
      [] e = "f" -> "\f"
      [] e = "n" -> "\n"
      [] e = "r" -> "\r"
      [] e = "t" -> "\t"

HexChars ==
    <<"0", "1", "2", "3", "4", "5", "6", "7", "8", "9", "a", "b", "c", "d", "e", "f",
      "A", "B", "C", "D", "E", "F">>
\* int(h, 16) of one hex digit, from its place in HexChars
HexAt(p) == IF p > 16 THEN p - 7 ELSE p - 1
HexVal(h) == HexAt(CHOOSE p \in 1..22 : HexChars[p] = h)

\* the characters U+0020 .. U+007E ("x60" is the grave accent)
AsciiPrintable ==
    <<" ", "!", "\"", "#", "$", "%", "&", "'", "(", ")", "*", "+", ",", "-", ".", "/",
      "0", "1", "2", "3", "4", "5", "6", "7", "8", "9", ":", ";", "<", "=", ">", "?",
      "@", "A", "B", "C", "D", "E", "F", "G", "H", "I", "J", "K", "L", "M", "N", "O",
      "P", "Q", "R", "S", "T", "U", "V", "W", "X", "Y", "Z", "[", "\\", "]", "^", "_",
      "x60", "a", "b", "c", "d", "e", "f", "g", "h", "i", "j", "k", "l", "m", "n", "o",
      "p", "q", "r", "s", "t", "u", "v", "w", "x", "y", "z", "{", "|", "}", "~">>

\* chr(code): the character itself up to U+007E; any other code point is one
\* character named by its number
chr ==
    [code \in Nat |->
        CASE code >= 32 /\ code <= 126 -> AsciiPrintable[code - 31]
          [] code = 0 -> "x00"
          [] code = 8 -> "x08"
          [] code = 9 -> "\t"
          [] code = 10 -> "\n"
          [] code = 12 -> "\f"
          [] code = 13 -> "\r"
          [] OTHER -> "\\u" \o ToString(code)]
CodeUnitChar(code) == chr[code]

\* json.decoder's \uXXXX escapes: the four characters at p..p+3 are hex
\* digits; their value
IsHex4(s, p) == p + 4 <= Len(s) /\ \A d \in 0..3 : Ch(s, p + d) \in HexDigits
RECURSIVE HexNum(_, _, _)
HexNum(s, p, n) == IF n = 0 THEN 0 ELSE 16 * HexNum(s, p, n - 1) + HexVal(Ch(s, p + n - 1))
Hex4(s, p) == HexNum(s, p, 4)

\* the value of the escape that follows at p, -1 where none does
NextEscape(s, p) ==
    IF Ch(s, p) = "\\" /\ Ch(s, p + 1) = "u" /\ IsHex4(s, p + 2) THEN Hex4(s, p + 2) ELSE -1

\* json.decoder py_scanstring: a high surrogate followed by the escape of a low
\* surrogate is joined with it into one character; any other escape is the
\* character of its value.  len is the number of characters decoded
JoinSurrogates ==
    [uni \in Int, uni2 \in Int |->
        IF uni \in 55296..56319 /\ uni2 \in 56320..57343
        THEN [code |-> 65536 + (uni - 55296) * 1024 + (uni2 - 56320), len |-> 12]
        ELSE [code |-> uni, len |-> 6]]

\* the escape at k (its backslash): its code point and the characters it takes
UEscape(s, k) == JoinSurrogates[Hex4(s, k + 2), NextEscape(s, k + 6)]

RECURSIVE ScanString(_, _, _)
RECURSIVE ScanOnce(_, _, _)
RECURSIVE JSONObjectMembers(_, _, _, _)
RECURSIVE JSONArrayItems(_, _, _, _)

\* json.decoder.WHITESPACE.match(s, i).end()
SkipWs(s, i) == MinOr({k \in i..(Len(s) - 1) : s[k + 1] \notin JsonWs}, Len(s))

\* end of the longest run of digits starting at i
DigitsEnd(s, i) == MinOr({k \in i..(Len(s) - 1) : s[k + 1] \notin Digits}, Len(s))

\* json.decoder.scanstring(s, i, strict=True) at its next quote, backslash
\* or control character, at index k (-1: there is none); i is the
\* position after the opening quote or after the last escape
\* u is the \uXXXX escape at k
AfterUEscape(s, i, acc, k, u) ==
    ScanString(s, k + u.len, Append(acc \o Slice(s, i, k), CodeUnitChar(u.code)))
ScanStringStop(s, i, acc, k) ==
    IF k = -1 THEN JFail
    ELSE IF s[k + 1] = QUOTE THEN JOk(acc \o Slice(s, i, k), k + 1)
    ELSE IF s[k + 1] # BACKSLASH THEN JFail
    ELSE IF Ch(s, k + 1) \in {"\"", "\\", "/", "b", "f", "n", "r", "t"}
         THEN ScanString(s, k + 2, Append(acc \o Slice(s, i, k), Unescape(Ch(s, k + 1))))
    ELSE IF Ch(s, k + 1) = "u" /\ IsHex4(s, k + 2)
         THEN AfterUEscape(s, i, acc, k, UEscape(s, k))
    ELSE JFail
ScanString(s, i, acc) ==
    ScanStringStop(s, i, acc,
                   MinOr({k \in i..(Len(s) - 1) :
                              s[k + 1] \in ({QUOTE, BACKSLASH} \cup ControlChars)}, -1))
\* the string that starts after the quote at i - 1, scanned with depth levels
\* in use: every error of scanstring is a raise_errmsg
StringScanned(depth, r) == IF r.ok THEN r ELSE raise_errmsg(depth)
scanstring(s, depth, i) == StringScanned(depth, ScanString(s, i, <<>>))

\* json.scanner.NUMBER_RE  (-?(?:0|[1-9]\d*))(\.\d+)?([eE][-+]?\d+)?
\* (?:0|[1-9]\d*): where the integer part that starts at p0 ends, -1 if none
IntEnd(s, p0) ==
    IF Ch(s, p0) = "0" THEN p0 + 1
    ELSE IF Ch(s, p0) \in Digits THEN DigitsEnd(s, p0)
    ELSE -1
\* (\.\d+)?: where a fraction that starts at p1 ends, p1 if there is none
FracEnd(s, p1) ==
    IF Ch(s, p1) = "." /\ Ch(s, p1 + 1) \in Digits THEN DigitsEnd(s, p1 + 1) ELSE p1
\* [-+]?: the index of the exponent's first digit, for an exponent mark at p2
ExpDigits(s, p2) == IF Ch(s, p2 + 1) \in {"+", "-"} THEN p2 + 2 ELSE p2 + 1
\* ([eE][-+]?\d+)?: where an exponent that starts at p2 ends, p2 if there is none
ExpEnd(s, p2) ==
    IF Ch(s, p2) \in {"e", "E"} /\ Ch(s, ExpDigits(s, p2)) \in Digits
    THEN DigitsEnd(s, ExpDigits(s, p2))
    ELSE p2
\* [end, isint] of the match at i; end = -1 when there is no match
NumberFrac(s, p1, p2) == [end |-> ExpEnd(s, p2), isint |-> p2 = p1 /\ ExpEnd(s, p2) = p2]
NumberInt(s, p1) ==
    IF p1 = -1 THEN [end |-> -1, isint |-> TRUE] ELSE NumberFrac(s, p1, FracEnd(s, p1))
NumberAt(s, i) == NumberInt(s, IntEnd(s, IF Ch(s, i) = "-" THEN i + 1 ELSE i))

\* json.decoder.JSONObject, the member loop; depth is the recursion depth in
\* use inside the object.  After a member's value at e5: "}" ends the
\* object, "," must be followed by a key
ObjectNext(s, depth, pairs2, e5) ==
    IF Ch(s, e5) = RBRACE THEN JOk([t |-> "obj", v |-> pairs2], e5 + 1)
    ELSE IF Ch(s, e5) # "," THEN raise_errmsg(depth)
    ELSE IF Ch(s, SkipWs(s, e5 + 1)) # QUOTE THEN raise_errmsg(depth)
    ELSE JSONObjectMembers(s, depth, SkipWs(s, e5 + 1) + 1, pairs2)
ObjectValue(s, depth, pairs, key, val) ==
    IF ~val.ok THEN val
    ELSE ObjectNext(s, depth, Append(pairs, <<key.v, val.v>>), SkipWs(s, val.end))
ObjectColon(s, depth, pairs, key, e2) ==
    IF Ch(s, e2) # ":" THEN raise_errmsg(depth)
    ELSE ObjectValue(s, depth, pairs, key, ScanOnce(s, depth, SkipWs(s, e2 + 1)))
ObjectKey(s, depth, pairs, key) ==
    IF ~key.ok THEN key
    ELSE ObjectColon(s, depth, pairs, key,
                     IF Ch(s, key.end) # ":" THEN SkipWs(s, key.end) ELSE key.end)
\* i is the position after the key's opening quote: key, end = scanstring(s, i)
JSONObjectMembers(s, depth, i, pairs) == ObjectKey(s, depth, pairs, scanstring(s, depth, i))
\* json.decoder.JSONObject; i is the position after "{", i1 the first
\* position that holds no whitespace
JSONObjectFrom(s, depth, i, i1) ==
    IF Ch(s, i) # QUOTE /\ Ch(s, i1) = RBRACE
    THEN JOk([t |-> "obj", v |-> <<>>], i1 + 1)
    ELSE IF Ch(s, i1) # QUOTE THEN raise_errmsg(depth)
    ELSE JSONObjectMembers(s, depth, i1 + 1, <<>>)
JSONObject(s, depth, i) ==
    JSONObjectFrom(s, depth, i, IF Ch(s, i) \in JsonWs THEN SkipWs(s, i) ELSE i)

\* json.decoder.JSONArray; i is the position after "["
ArrayNext(s, depth, items2, e1) ==
    IF Ch(s, e1) = "]" THEN JOk([t |-> "arr", v |-> items2], e1 + 1)
    ELSE IF Ch(s, e1) # "," THEN raise_errmsg(depth)
    ELSE JSONArrayItems(s, depth, SkipWs(s, e1 + 1), items2)
ArrayItem(s, depth, items, val) ==
    IF ~val.ok THEN val
    ELSE ArrayNext(s, depth, Append(items, val.v), SkipWs(s, val.end))
JSONArrayItems(s, depth, i, items) == ArrayItem(s, depth, items, ScanOnce(s, depth, i))
JSONArrayFrom(s, depth, i1) ==
    IF Ch(s, i1) = "]" THEN JOk([t |-> "arr", v |-> <<>>], i1 + 1)
    ELSE JSONArrayItems(s, depth, i1, <<>>)
JSONArray(s, depth, i) ==
    JSONArrayFrom(s, depth, IF Ch(s, i) \in JsonWs THEN SkipWs(s, i + 1) ELSE i)

\* json.scanner.py_make_scanner._scan_once, on the character c at index i,
\* with the recursion accounting of c_make_scanner, the scanner json.loads
\* runs: depth is the recursion depth in use where the value is scanned
ScanStringValue(s, r) == IF r.ok THEN JOk(JStr(r.v), r.end) ELSE r
\* parse_constant(name) is a call, one level deep
ParseConstant(depth, name, e) ==
    IF TooDeep(depth, 1) THEN JTooDeep ELSE JOk([t |-> "float", v |-> name], e)
ScanNumber(s, depth, i, c, num) ==
    IF num.end # -1
    THEN \* int(integer) of more than 4300 digits raises ValueError
         IF num.isint /\ num.end - (IF c = "-" THEN i + 1 ELSE i) > 4300
         THEN JIntTooLong
         ELSE JOk([t |-> IF num.isint THEN "int" ELSE "float",
                   v |-> Slice(s, i, num.end)],
                  num.end)
    ELSE IF c = "N" /\ StartsAt(s, <<"N", "a", "N">>, i)
         THEN ParseConstant(depth, <<"N", "a", "N">>, i + 3)
    ELSE IF c = "I" /\ StartsAt(s, INFINITY, i)
         THEN ParseConstant(depth, INFINITY, i + 8)
    ELSE IF c = "-" /\ StartsAt(s, <<"-">> \o INFINITY, i)
         THEN ParseConstant(depth, <<"-">> \o INFINITY, i + 9)
    ELSE JStop
\* the scanner enters an object or an array one level deeper
\* (Py_EnterRecursiveCall)
ScanValue(s, depth, i, c) ==
    IF c = "" THEN JStop
    ELSE IF c = QUOTE THEN ScanStringValue(s, scanstring(s, depth, i + 1))
    ELSE IF c \in {LBRACE, "["} /\ TooDeep(depth, 1) THEN JTooDeep
    ELSE IF c = LBRACE THEN JSONObject(s, depth + 1, i + 1)
    ELSE IF c = "[" THEN JSONArray(s, depth + 1, i + 1)
    ELSE IF c = "n" /\ StartsAt(s, <<"n", "u", "l", "l">>, i)
         THEN JOk([t |-> "null", v |-> <<>>], i + 4)
    ELSE IF c = "t" /\ StartsAt(s, <<"t", "r", "u", "e">>, i)
         THEN JOk([t |-> "true", v |-> <<>>], i + 4)
    ELSE IF c = "f" /\ StartsAt(s, <<"f", "a", "l", "s", "e">>, i)
         THEN JOk([t |-> "false", v |-> <<>>], i + 5)
    ELSE ScanNumber(s, depth, i, c, NumberAt(s, i))
ScanOnce(s, depth, i) == ScanValue(s, depth, i, Ch(s, i))

\* JSONDecoder.decode, frames + 2 deep: raw_decode, one deeper, turns the
\* scanner's StopIteration into "Expecting value", and only whitespace may
\* follow the value
DecodedWhole(s, frames, r) ==
    IF r.exc = "StopIteration" THEN Raise(frames + 3)
    ELSE IF ~r.ok THEN r
    ELSE IF SkipWs(s, r.end) # Len(s) THEN Raise(frames + 2)
    ELSE r

\* json.loads(s) for a str s, called with frames Python frames in use (the
\* caller's included): json.loads, JSONDecoder.decode and raw_decode take
\* three more, and the scanner one level for each object or array it is in.
\* A value is [t, v] with t its type; the result is JOk(value, end) or a
\* failure with its exception.
json_loads(s, frames) ==
    IF TooDeep(frames, 3) THEN JTooDeep
    ELSE DecodedWhole(s, frames, ScanOnce(s, frames + 3, SkipWs(s, 0)))

IsDict(val) == val.t = "obj"
IsStr(val) == val.t = "str"

\* key in obj
HasKey(obj, key) == \E k \in 1..Len(obj.v) : obj.v[k][1] = key

\* obj.get(key): the value of the last pair with that key (dict semantics)
Get(obj, key) ==
    LET LastOf(S) == IF S = {} THEN NoValue ELSE obj.v[Max(S)][2]
    IN  LastOf({k \in 1..Len(obj.v) : obj.v[k][1] = key})

(***************************************************************************)
(* The balanced-object scanner, _iter_embedded_json_objects.               *)
(*                                                                         *)
(* A generator is modelled by its run to exhaustion: the sequence ys of    *)
(* its yields, each with the span it was decoded from and the number of    *)
(* json.loads calls made up to that yield, and the number of calls made    *)
(* in all.  A consumer that breaks after the k-th yield has paid for the   *)
(* decodes up to ys[k] only.                                               *)
(***************************************************************************)
\* one iteration of the inner while loop (lines 210-239) at position w.j;
\* w.hit is the position of the closing brace once depth is back to 0
EmbeddedWalkStep(data, w) ==
    LET b == At(data, w.j)
    IN  IF w.in_str THEN
            IF w.esc THEN [w EXCEPT !.esc = FALSE, !.j = @ + 1]
            ELSE IF b = BACKSLASH THEN [w EXCEPT !.esc = TRUE, !.j = @ + 1]
            ELSE IF b = QUOTE THEN [w EXCEPT !.in_str = FALSE, !.j = @ + 1]
            ELSE [w EXCEPT !.j = @ + 1]
        ELSE IF b = QUOTE THEN [w EXCEPT !.in_str = TRUE, !.j = @ + 1]
        ELSE IF b = LBRACE THEN [w EXCEPT !.depth = @ + 1, !.j = @ + 1]
        ELSE IF b = RBRACE THEN
            IF w.depth - 1 = 0 THEN [w EXCEPT !.depth = 0, !.hit = w.j]
            ELSE [w EXCEPT !.depth = @ - 1, !.j = @ + 1]
        ELSE [w EXCEPT !.j = @ + 1]

\* the inner while loop: at most k iterations of "while j < n", until the break
RECURSIVE RunEmbeddedWalk(_, _, _)
RunEmbeddedWalk(data, w, k) ==
    IF k <= 0 \/ w.hit # -1 \/ w.j >= Len(data) THEN w
    ELSE IF k = 1 THEN EmbeddedWalkStep(data, w)
    ELSE RunEmbeddedWalk(data, RunEmbeddedWalk(data, w, k \div 2), k - (k \div 2))

WalkFrom(start) == [j |-> start, depth |-> 0, in_str |-> FALSE, esc |-> FALSE, hit |-> -1]

GenInit == [i |-> 0, found |-> 0, loads |-> 0, ys |-> <<>>, done |-> FALSE]

\* a failed decode resuming after the span it failed on
EmbeddedDecoded_skipping(g, start, hit, r) ==
    IF r.ok /\ IsDict(r.v)
    THEN [g EXCEPT !.ys = Append(@, [obj |-> r.v, start |-> start, end |-> hit + 1,
                                     loads |-> g.loads + 1]),
                   !.found = @ + 1,
                   !.loads = @ + 1,
                   !.i = hit + 1]
    ELSE [g EXCEPT !.loads = @ + 1, !.i = hit + 1]

\* r is the result of json.loads on the balanced chunk (lines 229-237)
EmbeddedDecoded(g, start, hit, r) ==
    IF r.ok /\ IsDict(r.v)
    THEN [g EXCEPT !.ys = Append(@, [obj |-> r.v, start |-> start, end |-> hit + 1,
                                     loads |-> g.loads + 1]),
                   !.found = @ + 1,
                   !.loads = @ + 1,
                   !.i = hit + 1]
    ELSE [g EXCEPT !.loads = @ + 1, !.i = start + 1]

\* hit is the index of the brace that closes the object opened at start, or -1
EmbeddedBalanced(data, g, start, hit, frames) ==
    IF hit = -1 THEN [g EXCEPT !.i = start + 1]
    ELSE IF ~Utf8Ok(Slice(data, start, hit + 1)) THEN [g EXCEPT !.i = start + 1]
    ELSE EmbeddedDecoded(g, start, hit,
                         json_loads(Slice(data, start, hit + 1), frames))

\* start is the result of data.find(b"{", i) (lines 201-208)
EmbeddedFrom(data, g, start, frames) ==
    IF start = -1 THEN [g EXCEPT !.done = TRUE]
    ELSE EmbeddedBalanced(data, g, start,
                          RunEmbeddedWalk(data, WalkFrom(start), Len(data) - start).hit, frames)

\* one iteration of the outer while loop (lines 200-241)
EmbeddedIterStep(data, g, max_objects, frames) ==
    IF ~(g.i < Len(data) /\ g.found < max_objects) THEN [g EXCEPT !.done = TRUE]
    ELSE EmbeddedFrom(data, g, Find(data, <<LBRACE>>, g.i), frames)

RECURSIVE RunEmbedded(_, _, _, _, _)
RunEmbedded(data, g, max_objects, k, frames) ==
    IF k <= 0 \/ g.done THEN g
    ELSE IF k = 1 THEN EmbeddedIterStep(data, g, max_objects, frames)
    ELSE RunEmbedded(data, RunEmbedded(data, g, max_objects, k \div 2, frames), max_objects,
                     k - (k \div 2), frames)

\* every iteration moves i forward by at least one byte: Len(data) + 1 iterations exhaust it
_iter_embedded_json_objects(data, max_objects, frames) ==
    RunEmbedded(data, GenInit, max_objects, Len(data) + 1, frames)

(***************************************************************************)
(* The role-anchored scanner.                                              *)
(***************************************************************************)

\* the walk with a backslash that leaves the next byte unescaped
BalancedEndStep_unescaped(data, w) ==
    LET b == At(data, w.j)
    IN  IF w.in_str THEN
            IF b = QUOTE THEN [w EXCEPT !.in_str = FALSE, !.j = @ + 1]
            ELSE [w EXCEPT !.j = @ + 1]
        ELSE IF b = QUOTE THEN [w EXCEPT !.in_str = TRUE, !.j = @ + 1]
        ELSE IF b = LBRACE THEN [w EXCEPT !.depth = @ + 1, !.j = @ + 1]
        ELSE IF b = RBRACE THEN
            IF w.depth - 1 = 0 THEN [w EXCEPT !.depth = 0, !.hit = w.j]
            ELSE [w EXCEPT !.depth = @ - 1, !.j = @ + 1]
        ELSE [w EXCEPT !.j = @ + 1]

\* one iteration of the while loop of _scan_balanced_object_end (lines 334-352)
BalancedEndStep(data, w) ==
    LET b == At(data, w.j)
    IN  IF w.in_str THEN
            IF w.esc THEN [w EXCEPT !.esc = FALSE, !.j = @ + 1]
            ELSE IF b = BACKSLASH THEN [w EXCEPT !.esc = TRUE, !.j = @ + 1]
            ELSE IF b = QUOTE THEN [w EXCEPT !.in_str = FALSE, !.j = @ + 1]
            ELSE [w EXCEPT !.j = @ + 1]
        ELSE IF b = QUOTE THEN [w EXCEPT !.in_str = TRUE, !.j = @ + 1]
        ELSE IF b = LBRACE THEN [w EXCEPT !.depth = @ + 1, !.j = @ + 1]
        ELSE IF b = RBRACE THEN
            IF w.depth - 1 = 0 THEN [w EXCEPT !.depth = 0, !.hit = w.j]
            ELSE [w EXCEPT !.depth = @ - 1, !.j = @ + 1]
        ELSE [w EXCEPT !.j = @ + 1]

RECURSIVE RunBalancedEnd(_, _, _, _)
RunBalancedEnd(data, w, end_limit, k) ==
    IF k <= 0 \/ w.hit # -1 \/ w.j >= end_limit THEN w
    ELSE IF k = 1 THEN BalancedEndStep(data, w)
    ELSE RunBalancedEnd(data, RunBalancedEnd(data, w, end_limit, k \div 2), end_limit, k - (k \div 2))


\* the inclusive end index, or -1 for None
_scan_balanced_object_end(data, start, max_len) ==
    LET Within(end_limit) ==
            RunBalancedEnd(data, WalkFrom(start), end_limit, end_limit - start).hit
    IN  IF start < 0 \/ start >= Len(data) THEN -1
        ELSE IF At(data, start) # LBRACE THEN -1
        ELSE Within(IntMin(Len(data), start + IntMax(0, max_len)))

\* [ok, obj, loads]: ok is "the result is a dict"; loads counts the json.loads call
ParsedDict(r) ==
    IF r.ok /\ IsDict(r.v) THEN [ok |-> TRUE, obj |-> r.v, loads |-> 1]
    ELSE [ok |-> FALSE, obj |-> NoValue, loads |-> 1]

_parse_json_dict_from_span(data, start, end_inclusive, frames) ==
    IF start < 0 \/ end_inclusive < start \/ end_inclusive >= Len(data)
    THEN [ok |-> FALSE, obj |-> NoValue, loads |-> 0]
    ELSE IF ~Utf8Ok(Slice(data, start, end_inclusive + 1))
    THEN [ok |-> FALSE, obj |-> NoValue, loads |-> 0]
    ELSE ParsedDict(json_loads(Slice(data, start, end_inclusive + 1), frames))

\* lines 386-393: up to k more candidate opening braces, nearest first
RECURSIVE CollectCandidates(_, _, _, _, _)

CollectCandidates(data, left, p, k, candidates) ==
    LET Found(s) == IF s = -1 THEN candidates
                    ELSE CollectCandidates(data, left, s - 1, k - 1, Append(candidates, s))
    IN  IF k <= 0 THEN candidates
        ELSE Found(RFind(data, <<LBRACE>>, left, p + 1))

FoundNone(loads) == [ok |-> FALSE, obj |-> NoValue, start |-> -1, end_pos |-> -1, loads |-> loads]

\* lines 395-409: the first acceptable candidate from candidates[c] on
RECURSIVE TryCandidates(_, _, _, _, _, _, _)

\* the checks on the object parsed from candidates[c] (lines 400-408)
CandidateParsed(data, candidates, c, roles_set, max_obj_len, loads, end, parsed, frames) ==
    IF ~parsed.ok
    THEN TryCandidates(data, candidates, c + 1, roles_set, max_obj_len, loads + parsed.loads, frames)
    ELSE IF ~IsStr(Get(parsed.obj, <<"r", "o", "l", "e">>))
            \/ Get(parsed.obj, <<"r", "o", "l", "e">>).v \notin roles_set
    THEN TryCandidates(data, candidates, c + 1, roles_set, max_obj_len, loads + parsed.loads, frames)
    ELSE IF ~HasKey(parsed.obj, <<"c", "o", "n", "t", "e", "n", "t">>)
    THEN TryCandidates(data, candidates, c + 1, roles_set, max_obj_len, loads + parsed.loads, frames)
    ELSE [ok |-> TRUE, obj |-> parsed.obj, start |-> candidates[c], end_pos |-> end + 1,
          loads |-> loads + parsed.loads]

CandidateSpan(data, candidates, c, roles_set, max_obj_len, loads, end, frames) ==
    IF end = -1 THEN TryCandidates(data, candidates, c + 1, roles_set, max_obj_len, loads, frames)
    ELSE CandidateParsed(data, candidates, c, roles_set, max_obj_len, loads, end,
                         _parse_json_dict_from_span(data, candidates[c], end, frames + 1), frames)

TryCandidates(data, candidates, c, roles_set, max_obj_len, loads, frames) ==
    IF c > Len(candidates) THEN FoundNone(loads)
    ELSE CandidateSpan(data, candidates, c, roles_set, max_obj_len, loads,
                       _scan_balanced_object_end(data, candidates[c], max_obj_len), frames)

_find_enclosing_message_obj_around_role(data, role_pos, roles_set, back_window, max_candidates, max_obj_len, frames) ==
    IF role_pos < 0 \/ role_pos >= Len(data) THEN FoundNone(0)
    ELSE TryCandidates(data,
                       CollectCandidates(data, IntMax(0, role_pos - IntMax(0, back_window)),
                                         role_pos, IntMax(1, max_candidates), <<>>),
                       1, roles_set, max_obj_len, 0, frames)

\* agent_store.py:372-374, the defaults of _find_enclosing_message_obj_around_role
BACK_WINDOW == 65536
MAX_CANDIDATES == 16
MAX_OBJ_LEN == 262144

\* the loop resuming at the yielded object's end, without the max() of line 448
AnchoredIterStep_stalling(data, g, roles_set, max_objects, frames) ==
    LET Found(role_pos, res) ==
            IF ~res.ok
            THEN [g EXCEPT !.loads = @ + res.loads, !.i = role_pos + Len(ROLE_MARKER)]
            ELSE [g EXCEPT !.ys = Append(@, [obj |-> res.obj, start |-> res.start,
                                             end |-> res.end_pos,
                                             loads |-> g.loads + res.loads]),
                           !.found = @ + 1,
                           !.loads = @ + res.loads,
                           !.i = res.end_pos]
    IN  IF ~(g.i < Len(data) /\ g.found < max_objects) THEN [g EXCEPT !.done = TRUE]
        ELSE IF Find(data, ROLE_MARKER, g.i) = -1 THEN [g EXCEPT !.done = TRUE]
        ELSE Found(Find(data, ROLE_MARKER, g.i),
                   _find_enclosing_message_obj_around_role(data, Find(data, ROLE_MARKER, g.i),
                                                           roles_set, BACK_WINDOW,
                                                           MAX_CANDIDATES, MAX_OBJ_LEN, frames + 1))

\* one iteration of the while loop of _iter_message_objects_role_anchored (lines 435-448)
AnchoredIterStep(data, g, roles_set, max_objects, frames) ==
    LET Found(role_pos, res) ==
            IF ~res.ok
            THEN [g EXCEPT !.loads = @ + res.loads, !.i = role_pos + Len(ROLE_MARKER)]
            ELSE [g EXCEPT !.ys = Append(@, [obj |-> res.obj, start |-> res.start,
                                             end |-> res.end_pos,
                                             loads |-> g.loads + res.loads]),
                           !.found = @ + 1,
                           !.loads = @ + res.loads,
                           !.i = IntMax(res.end_pos, role_pos + Len(ROLE_MARKER))]
    IN  IF ~(g.i < Len(data) /\ g.found < max_objects) THEN [g EXCEPT !.done = TRUE]
        ELSE IF Find(data, ROLE_MARKER, g.i) = -1 THEN [g EXCEPT !.done = TRUE]
        ELSE Found(Find(data, ROLE_MARKER, g.i),
                   _find_enclosing_message_obj_around_role(data, Find(data, ROLE_MARKER, g.i),
                                                           roles_set, BACK_WINDOW,
                                                           MAX_CANDIDATES, MAX_OBJ_LEN, frames + 1))

RECURSIVE RunAnchored(_, _, _, _, _, _)
RunAnchored(data, g, roles_set, max_objects, k, frames) ==
    IF k <= 0 \/ g.done THEN g
    ELSE IF k = 1 THEN AnchoredIterStep(data, g, roles_set, max_objects, frames)
    ELSE RunAnchored(data, RunAnchored(data, g, roles_set, max_objects, k \div 2, frames),
                     roles_set, max_objects, k - (k \div 2), frames)

\* roles is a tuple of str; g.i is the source's pos
_iter_message_objects_role_anchored(data, roles, max_objects, frames) ==
    IF data = <<>> THEN [GenInit EXCEPT !.done = TRUE]
    ELSE IF roles = <<>> THEN [GenInit EXCEPT !.done = TRUE]
    ELSE IF ~Contains(data, <<LBRACE>>) \/ ~Contains(data, ROLE_MARKER)
         THEN [GenInit EXCEPT !.done = TRUE]
    ELSE RunAnchored(data, GenInit, {roles[k] : k \in 1..Len(roles)}, max_objects,
                     Len(data) + 1, frames)

(***************************************************************************)
(* The message normalizer, _extract_text_from_message.                     *)
(***************************************************************************)
\* the whitespace str.strip() removes, among the characters a decoded JSON
\* string of the alphabet can hold
StripWs ==
    {" ", "\t", "\n", "\r", "\f"}
        \cup {"\\u" \o ToString(c) : c \in {11, 28, 29, 30, 31, 133, 160, 5760, 8232, 8233,
                                             8239, 8287, 12288} \cup 8192..8202}

\* s.lstrip()
LStrip(s) ==
    LET From(S) == IF S = {} THEN <<>> ELSE SubSeq(s, Min(S), Len(s))
    IN  From({k \in 1..Len(s) : s[k] \notin StripWs})

\* s.strip()
Strip(s) ==
    LET Between(S) == IF S = {} THEN <<>> ELSE SubSeq(s, Min(S), Max(S))
    IN  Between({k \in 1..Len(s) : s[k] \notin StripWs})

\* isinstance(x, str) and x.strip()
NonBlankStr(val) == IsStr(val) /\ Strip(val.v) # <<>>

TextPartTypes == {<<"t", "e", "x", "t">>,
                  <<"o", "u", "t", "p", "u", "t", "_", "t", "e", "x", "t">>,
                  <<"i", "n", "p", "u", "t", "_", "t", "e", "x", "t">>}

\* the for loop over content parts (lines 456-469), from parts[k] on
RECURSIVE TextFromParts(_, _)

TextFromParts(parts, k) ==
    LET Part(t, d, ty) ==
            IF NonBlankStr(t) THEN Some(t.v)
            ELSE IF NonBlankStr(d) /\ IsStr(ty) /\ ty.v \in TextPartTypes THEN Some(d.v)
            ELSE TextFromParts(parts, k + 1)
    IN  IF k > Len(parts) THEN None
        ELSE IF ~IsDict(parts[k]) THEN TextFromParts(parts, k + 1)
        ELSE Part(Get(parts[k], <<"t", "e", "x", "t">>), Get(parts[k], <<"d", "a", "t", "a">>),
                  Get(parts[k], <<"t", "y", "p", "e">>))


\* Optional[str]
_extract_text_from_message(msg) ==
    LET Content(content) ==
            IF NonBlankStr(content) THEN Some(content.v)
            ELSE IF content.t = "arr" THEN TextFromParts(content.v, 1)
            ELSE None
    IN  Content(Get(msg, <<"c", "o", "n", "t", "e", "n", "t">>))

(***************************************************************************)
(* Bounds of the model and the inputs the actions draw from.               *)
(***************************************************************************)
\* most blobs the store is grown to
MaxBlobs == 2
\* how far below zero the limit arguments reach
Negatives == 1
\* largest max_messages argument
MaxN == 2
\* largest max_blobs argument
MaxB == 1

USER == <<"u", "s", "e", "r">>
ASSISTANT == <<"a", "s", "s", "i", "s", "t", "a", "n", "t">>

\* the roles arguments: the default ("user", "assistant"), and ("user",)
RoleChoices == {<<USER, ASSISTANT>>, <<USER>>}

\* {"role":"user","content":"a"}
MSG_USER_A ==
    <<"{", "\"", "r", "o", "l", "e", "\"", ":", "\"", "u", "s", "e", "r", "\"", ",", "\"", "c",
      "o", "n", "t", "e", "n", "t", "\"", ":", "\"", "a", "\"", "}">>
\* {"role":"assistant","content":"b"}
MSG_ASSISTANT_B ==
    <<"{", "\"", "r", "o", "l", "e", "\"", ":", "\"", "a", "s", "s", "i", "s", "t", "a", "n", "t",
      "\"", ",", "\"", "c", "o", "n", "t", "e", "n", "t", "\"", ":", "\"", "b", "\"", "}">>
\* {"role":"user","content":" a"}
MSG_USER_A_PADDED ==
    <<"{", "\"", "r", "o", "l", "e", "\"", ":", "\"", "u", "s", "e", "r", "\"", ",", "\"", "c",
      "o", "n", "t", "e", "n", "t", "\"", ":", "\"", " ", "a", "\"", "}">>
\* {"role":"user","content":"<user_info>x"}
MSG_USER_INFO ==
    <<"{", "\"", "r", "o", "l", "e", "\"", ":", "\"", "u", "s", "e", "r", "\"", ",", "\"", "c",
      "o", "n", "t", "e", "n", "t", "\"", ":", "\"", "<", "u", "s", "e", "r", "_", "i", "n", "f",
      "o", ">", "x", "\"", "}">>
\* {"id":"1","role":"assistant","content":[{"type":"text","text":"c"}]}
MSG_ASSISTANT_C_PARTS ==
    <<"{", "\"", "i", "d", "\"", ":", "\"", "1", "\"", ",", "\"", "r", "o", "l", "e", "\"", ":",
      "\"", "a", "s", "s", "i", "s", "t", "a", "n", "t", "\"", ",", "\"", "c", "o", "n", "t", "e",
      "n", "t", "\"", ":", "[", "{", "\"", "t", "y", "p", "e", "\"", ":", "\"", "t", "e", "x",
      "t", "\"", ",", "\"", "t", "e", "x", "t", "\"", ":", "\"", "c", "\"", "}", "]", "}">>
\* {"role":"assistant","content":" "}
MSG_ASSISTANT_BLANK ==
    <<"{", "\"", "r", "o", "l", "e", "\"", ":", "\"", "a", "s", "s", "i", "s", "t", "a", "n", "t",
      "\"", ",", "\"", "c", "o", "n", "t", "e", "n", "t", "\"", ":", "\"", " ", "\"", "}">>
\* {"k":{"role":"user","content":"d"}}
MSG_USER_D_WRAPPED ==
    <<"{", "\"", "k", "\"", ":", "{", "\"", "r", "o", "l", "e", "\"", ":", "\"", "u", "s", "e",
      "r", "\"", ",", "\"", "c", "o", "n", "t", "e", "n", "t", "\"", ":", "\"", "d", "\"", "}",
      "}">>

NUL == <<"x00">>

\* two messages between framing bytes (the layout of the repository's tests)
BLOB_AB == NUL \o MSG_USER_A \o NUL \o MSG_ASSISTANT_B \o NUL
\* a repeat of (user, a) up to whitespace, an injected <user_info> block, a
\* message whose content is blank, a parts message
BLOB_AIC ==
    MSG_USER_A_PADDED \o MSG_USER_INFO \o NUL \o MSG_ASSISTANT_BLANK \o MSG_ASSISTANT_C_PARTS
\* a message nested in an object that is not a message
BLOB_D == NUL \o MSG_USER_D_WRAPPED

\* the blobs the store's writer appends
BlobVocab == {BLOB_AB, BLOB_AIC, BLOB_D}

\* agent_store.py:547 and 569, max_objects=500
MAX_OBJECTS == 500

\* agent_store.py:192, the default max_objects of _iter_embedded_json_objects
DEFAULT_MAX_OBJECTS == 200

\* a binary root node: no JSON in it
BLOB_ROOT == NUL \o NUL
\* a message, DEFAULT_MAX_OBJECTS - 1 empty objects, a later message
BLOB_MANY ==
    MSG_USER_A \o [k \in 1..(2 * (DEFAULT_MAX_OBJECTS - 1)) |-> IF k % 2 = 1 THEN LBRACE ELSE RBRACE]
        \o MSG_ASSISTANT_B

\* the blobs of the stores that are read under faults
StoreBlobs == {BLOB_AB, BLOB_MANY, BLOB_ROOT}

\* binascii.hexlify(s.encode()).decode("ascii") of an ASCII str
hexlify(s) ==
    LET Code(c) == 31 + CHOOSE i \in 1..Len(AsciiPrintable) : AsciiPrintable[i] = c
        Hex(d) == IF d < 10 THEN ToString(d) ELSE <<"a", "b", "c", "d", "e", "f">>[d - 9]
    IN  [k \in 1..(2 * Len(s)) |-> IF k % 2 = 1 THEN Hex(Code(s[(k + 1) \div 2]) \div 16)
                                   ELSE Hex(Code(s[k \div 2]) % 16)]

\* json.dumps({"agentId": "c", "latestRootBlobId": "1", "name": "n"})
META_JSON ==
    <<"{", "\"", "a", "g", "e", "n", "t", "I", "d", "\"", ":", " ", "\"", "c", "\"", ",", " ",
      "\"", "l", "a", "t", "e", "s", "t", "R", "o", "o", "t", "B", "l", "o", "b", "I", "d", "\"",
      ":", " ", "\"", "1", "\"", ",", " ", "\"", "n", "a", "m", "e", "\"", ":", " ", "\"", "n",
      "\"", "}">>

\* the tests' meta table: the hex-encoded record under key "0" (lines 25-30)
META_HEX == <<<<<<"0">>, JStr(hexlify(META_JSON))>>>>

\* the meta tables: the tests' one, the hex of [], the JSON 1, a value that
\* decodes to nothing, a flat map, a NULL under key "0" beside a flat row,
\* and no row
MetaVocab ==
    {META_HEX,
     <<<<<<"0">>, JStr(<<"5", "b", "5", "d">>)>>>>,
     <<<<<<"0">>, JStr(<<"1">>)>>>>,
     <<<<<<"0">>, JStr(<<"z", "z">>)>>>>,
     <<<<<<"a", "g", "e", "n", "t", "I", "d">>, JStr(<<"c">>)>>,
       <<<<"l", "a", "t", "e", "s", "t", "R", "o", "o", "t", "B", "l", "o", "b", "I", "d">>,
         JStr(<<"2">>)>>>>,
     <<<<<<"0">>, [t |-> "null", v |-> <<>>]>>,
       <<<<"a", "g", "e", "n", "t", "I", "d">>, JStr(<<"c">>)>>>>,
     <<>>}

(***************************************************************************)
(* The directional extractor, _extract_messages_from_connection.  The      *)
(* blobs table is the sequence of its rows' data in rowid order; every     *)
(* row holds bytes.                                                        *)
(***************************************************************************)
USER_INFO_TAG == <<"<", "u", "s", "e", "r", "_", "i", "n", "f", "o", ">">>

InTuple(x, tup) == \E k \in 1..Len(tup) : tup[k] = x

\* _append without the seen set: only adjacent repeats are dropped
_append_without_seen(st, role, text, from_start, max_messages) ==
    LET Add(key, out2) ==
            IF st.stopped_early THEN st
            ELSE IF st.out # <<>> /\ st.out[Len(st.out)] = key THEN st
            ELSE [st EXCEPT !.out = out2,
                            !.stopped_early = (from_start /\ max_messages # None
                                               /\ Len(out2) >= max_messages[1])]
    IN  Add(<<role, text>>, Append(st.out, <<role, text>>))

\* _append that never sets stopped_early
_append_without_stop(st, role, text, from_start, max_messages) ==
    LET Add(key, out2) ==
            IF key \in st.seen THEN st
            ELSE IF st.out # <<>> /\ st.out[Len(st.out)] = key
                 THEN [st EXCEPT !.seen = @ \cup {key}]
            ELSE [st EXCEPT !.seen = @ \cup {key}, !.out = out2]
    IN  Add(<<role, text>>, Append(st.out, <<role, text>>))

\* the closure _append (lines 488-501); st holds seen, out, stopped_early
_append(st, role, text, from_start, max_messages) ==
    LET Add(key, out2) ==
            IF st.stopped_early THEN st
            ELSE IF key \in st.seen THEN st
            ELSE IF st.out # <<>> /\ st.out[Len(st.out)] = key
                 THEN [st EXCEPT !.seen = @ \cup {key}]
            ELSE [st EXCEPT !.seen = @ \cup {key},
                            !.out = out2,
                            !.stopped_early = (from_start /\ max_messages # None
                                               /\ Len(out2) >= max_messages[1])]
    IN  Add(<<role, text>>, Append(st.out, <<role, text>>))

\* the loop body without the test for the injected environment block
MessageKey_with_user_info(obj, roles) ==
    LET Text(role, text) ==
            IF text = None THEN None
            ELSE Some(<<role.v, Strip(text[1])>>)
        Role(role) ==
            IF ~IsStr(role) THEN None
            ELSE IF ~InTuple(role.v, roles) THEN None
            ELSE Text(role, _extract_text_from_message(obj))
    IN  Role(Get(obj, <<"r", "o", "l", "e">>))

\* the body of "for obj in objs" (lines 550-561, and again 570-577) up to its
\* call of _append: the (role, text) pair it passes, or None where it continues
MessageKey(obj, roles) ==
    LET Text(role, text) ==
            IF text = None THEN None
            ELSE IF role.v = USER /\ StartsAt(LStrip(text[1]), USER_INFO_TAG, 0) THEN None
            ELSE Some(<<role.v, Strip(text[1])>>)
        Role(role) ==
            IF ~IsStr(role) THEN None
            ELSE IF ~InTuple(role.v, roles) THEN None
            ELSE Text(role, _extract_text_from_message(obj))
    IN  Role(Get(obj, <<"r", "o", "l", "e">>))

\* what the extractor computes from one blob alone: the prefilter of line 541,
\* and each scanner's objects with the pair each object gives
WithKeys(gen, roles) ==
    [ys |-> gen.ys, loads |-> gen.loads,
     keys |-> [k \in 1..Len(gen.ys) |-> MessageKey(gen.ys[k].obj, roles)]]

BlobScan(blob, roles, frames) ==
    [prefilter |-> Contains(blob, <<LBRACE>>) /\ Contains(blob, ROLE_MARKER),
     anchored |-> WithKeys(_iter_message_objects_role_anchored(blob, roles, MAX_OBJECTS,
                                                               frames + 1), roles),
     embedded |-> WithKeys(_iter_embedded_json_objects(blob, MAX_OBJECTS, frames + 1), roles)]

\* the scans of the vocabulary's blobs, each computed once: as an extraction
\* scans them, and as the preview's fallback extraction does
BlobScanTable ==
    [b \in BlobVocab \cup StoreBlobs, roles \in RoleChoices |-> BlobScan(b, roles, ExtractFrames)]

FallbackScanTable ==
    [b \in StoreBlobs |-> BlobScan(b, <<USER, ASSISTANT>>, PreviewFrames + 1)]

Scanned(blob, roles, frames) ==
    IF frames = ExtractFrames /\ blob \in BlobVocab \cup StoreBlobs /\ roles \in RoleChoices
    THEN BlobScanTable[blob, roles]
    ELSE IF frames = PreviewFrames + 1 /\ blob \in StoreBlobs /\ roles = <<USER, ASSISTANT>>
    THEN FallbackScanTable[blob]
    ELSE BlobScan(blob, roles, frames)

\* the for loop over a generator's objects from its k-th yield on; base is the
\* number of json.loads calls made before the generator was started.  The
\* loop breaks right after the append that sets stopped_early (lines 563, 579).
RECURSIVE ConsumeObjects(_, _, _, _, _, _)
ConsumeObjects(st, gen, k, base, from_start, max_messages) ==
    LET After(st2) ==
            IF st2.stopped_early
            THEN [st2 EXCEPT !.loads = base + gen.ys[k].loads, !.objs = @ + 1]
            ELSE ConsumeObjects([st2 EXCEPT !.objs = @ + 1], gen, k + 1, base,
                                from_start, max_messages)
        Object(key) ==
            After(IF key = None THEN st
                  ELSE _append(st, key[1][1], key[1][2], from_start, max_messages))
    IN  IF k > Len(gen.ys) THEN [st EXCEPT !.loads = base + gen.loads]
        ELSE Object(gen.keys[k])

\* the loop body with the fallback taken when the anchored pass appended nothing
ScanBlob_fallback_on_nothing_appended(st, blob, roles, from_start, max_messages, frames) ==
    LET Anchored(scan, st1) ==
            IF st1.out # st.out THEN st1
            ELSE ConsumeObjects([st1 EXCEPT !.fallbacks = @ + 1], scan.embedded, 1,
                                st1.loads, from_start, max_messages)
        Row(scan) ==
            IF ~scan.prefilter THEN st
            ELSE Anchored(scan, ConsumeObjects(st, scan.anchored, 1, st.loads,
                                               from_start, max_messages))
    IN  Row(Scanned(blob, roles, frames))

\* the body of "for _rowid, data in rows_iter" (lines 531-580) for one row
ScanBlob(st, blob, roles, from_start, max_messages, frames) ==
    LET \* after the role-anchored pass: the fallback of lines 565-580
        Anchored(scan, st1) ==
            IF Len(scan.anchored.ys) > 0 THEN st1
            ELSE ConsumeObjects([st1 EXCEPT !.fallbacks = @ + 1], scan.embedded, 1,
                                st1.loads, from_start, max_messages)
        Row(scan) ==
            IF ~scan.prefilter THEN st
            ELSE Anchored(scan, ConsumeObjects(st, scan.anchored, 1, st.loads,
                                               from_start, max_messages))
    IN  Row(Scanned(blob, roles, frames))

\* the loop over rows_iter from rows[r] on, left at the break of line 581
RECURSIVE ScanRows(_, _, _, _, _, _, _)
ScanRows(st, rows, r, roles, from_start, max_messages, frames) ==
    LET After(st1) == IF st1.stopped_early THEN st1
                      ELSE ScanRows(st1, rows, r + 1, roles, from_start, max_messages, frames)
    IN  IF r > Len(rows) THEN st
        ELSE After(ScanBlob([st EXCEPT !.rows_read = @ + 1], rows[r], roles,
                            from_start, max_messages, frames))

ScanInit ==
    [seen |-> {}, out |-> <<>>, stopped_early |-> FALSE,
     loads |-> 0, objs |-> 0, rows_read |-> 0, fallbacks |-> 0]

\* seq[:k] that keeps all of seq
FirstN_whole(seq, k) == seq

\* seq[-k:] taken as seq[:k]
LastN_from_head(seq, k) == SubSeq(seq, 1, IntMin(k, Len(seq)))

\* seq[:k] and seq[-k:] for k > 0
FirstN(seq, k) == SubSeq(seq, 1, IntMin(k, Len(seq)))
LastN(seq, k) == SubSeq(seq, IntMax(1, Len(seq) - k + 1), Len(seq))

Reverse(seq) == [k \in 1..Len(seq) |-> seq[Len(seq) - k + 1]]

Q_ROWS_ASC == "SELECT rowid, data FROM blobs ORDER BY rowid ASC"
Q_ROWS_ASC_LIMIT == "SELECT rowid, data FROM blobs ORDER BY rowid ASC LIMIT ?"
Q_ROWS_DESC_LIMIT == "SELECT rowid, data FROM blobs ORDER BY rowid DESC LIMIT ?"
RowQueries == {Q_ROWS_ASC, Q_ROWS_ASC_LIMIT, Q_ROWS_DESC_LIMIT}

\* the rows each query returns; SQLite reads a negative LIMIT as no limit
RowsAscLimit(table, k) == IF k < 0 THEN table ELSE SubSeq(table, 1, IntMin(k, Len(table)))
RowsDescLimit(table, k) ==
    IF k < 0 THEN Reverse(table) ELSE SubSeq(Reverse(table), 1, IntMin(k, Len(table)))

NoScan == [ret |-> <<>>, loads |-> 0, objs |-> 0, rows_read |-> 0, fallbacks |-> 0, queries |-> <<>>]

\* an unlimited scan that reads the newest row first
SelectRows_newest_first(table, max_blobs, from_start) ==
    IF max_blobs = None THEN Reverse(table)
    ELSE IF from_start THEN RowsAscLimit(table, max_blobs[1])
    ELSE Reverse(RowsDescLimit(table, max_blobs[1]))

\* the rows of the statement the extractor runs, in the order it scans them
SelectRows(table, max_blobs, from_start) ==
    IF max_blobs = None THEN table
    ELSE IF from_start THEN RowsAscLimit(table, max_blobs[1])
    ELSE Reverse(RowsDescLimit(table, max_blobs[1]))

RowsQuery(max_blobs, from_start) ==
    IF max_blobs = None THEN Q_ROWS_ASC
    ELSE IF from_start THEN Q_ROWS_ASC_LIMIT
    ELSE Q_ROWS_DESC_LIMIT

\* the return of lines 584-588, with what the scan did
ExtractResult(max_messages, max_blobs, from_start, rows, st) ==
    [ret |-> IF max_messages = None THEN st.out
             ELSE IF from_start THEN FirstN(st.out, max_messages[1])
             ELSE LastN(st.out, max_messages[1]),
     loads |-> st.loads,
     objs |-> st.objs,
     \* a fetchall() reads every row of the answer, a cursor the rows iterated
     rows_read |-> IF max_blobs # None /\ ~from_start THEN Len(rows) ELSE st.rows_read,
     fallbacks |-> st.fallbacks,
     queries |-> <<RowsQuery(max_blobs, from_start)>>]

_extract_messages_from_connection(table, max_messages, max_blobs, roles, from_start, frames) ==
    IF max_messages # None /\ max_messages[1] <= 0 THEN NoScan
    ELSE IF max_blobs # None /\ max_blobs[1] <= 0 THEN NoScan
    ELSE ExtractResult(max_messages, max_blobs, from_start,
                       SelectRows(table, max_blobs, from_start),
                       ScanRows(ScanInit, SelectRows(table, max_blobs, from_start), 1,
                                roles, from_start, max_messages, frames))

(***************************************************************************)
(* The tests' slow reference: the same policy with the balanced-object     *)
(* scanner run on every blob that passes the prefilter.                    *)
(***************************************************************************)
RECURSIVE SlowScanRows(_, _, _, _, _, _)

SlowScanBlob(st, scan, from_start, max_messages) ==
    IF ~scan.prefilter THEN st
    ELSE ConsumeObjects(st, scan.embedded, 1, st.loads, from_start, max_messages)

SlowScanRows(st, rows, r, roles, from_start, max_messages) ==
    LET After(st1) == IF st1.stopped_early THEN st1
                      ELSE SlowScanRows(st1, rows, r + 1, roles, from_start, max_messages)
    IN  IF r > Len(rows) THEN st
        ELSE After(SlowScanBlob(st, Scanned(rows[r], roles, ExtractFrames), from_start,
                                max_messages))

SlowResult(max_messages, from_start, st) ==
    IF max_messages = None THEN st.out
    ELSE IF from_start THEN FirstN(st.out, max_messages[1])
    ELSE LastN(st.out, max_messages[1])

_extract_messages_slow_reference(table, max_messages, max_blobs, roles, from_start) ==
    IF max_messages # None /\ max_messages[1] <= 0 THEN <<>>
    ELSE SlowResult(max_messages, from_start,
                    SlowScanRows(ScanInit, SelectRows(table, max_blobs, from_start), 1,
                                 roles, from_start, max_messages))

(***************************************************************************)
(* Content fingerprint and full-history cache.  The OrderedDict is the     *)
(* sequence of its items, oldest first; an item is [k, msgs, b] with       *)
(* k = <<db_key, roles_key, stamp>>.                                       *)
(***************************************************************************)
_FULL_CACHE_MAX_ENTRIES == 24
_FULL_CACHE_MAX_BYTES == 33554432

Q_STAMP == "SELECT COALESCE(MAX(rowid), 0), COALESCE(SUM(LENGTH(data)), 0) FROM blobs"

RECURSIVE SumLength(_, _)
SumLength(table, k) == IF k = 0 THEN 0 ELSE SumLength(table, k - 1) + Len(table[k])

\* a stamp that does not read the table
_blobs_stamp_constant(table) == <<0, 0>>

\* rowids are 1..Len(table): rows are only ever appended
_blobs_stamp(table) == <<Len(table), SumLength(table, Len(table))>>

RECURSIVE ApproxBytesUpTo(_, _)
ApproxBytesUpTo(msgs, k) ==
    IF k = 0 THEN 0
    ELSE ApproxBytesUpTo(msgs, k - 1) + Len(msgs[k][1]) + Len(msgs[k][2]) + 32

_approx_messages_bytes(msgs) == ApproxBytesUpTo(msgs, Len(msgs))

KeyIndex(cache, k) == MinOr({i \in 1..Len(cache) : cache[i].k = k}, 0)

RemoveAt(cache, i) == SubSeq(cache, 1, i - 1) \o SubSeq(cache, i + 1, Len(cache))

\* move_to_end(k, last=False)
move_to_front(cache, i) == <<cache[i]>> \o RemoveAt(cache, i)

\* OrderedDict.move_to_end(k, last=True)
move_to_end(cache, i) == RemoveAt(cache, i) \o <<cache[i]>>

\* a get that pops the entry it hits
_full_cache_get_popping(cache, db_key, roles_key, stamp) ==
    LET At_(i) == IF i = 0 THEN [hit |-> FALSE, msgs |-> <<>>, cache |-> cache]
                  ELSE [hit |-> TRUE, msgs |-> cache[i].msgs, cache |-> RemoveAt(cache, i)]
    IN  At_(KeyIndex(cache, <<db_key, roles_key, stamp>>))

_full_cache_get(cache, db_key, roles_key, stamp) ==
    LET At_(i) == IF i = 0 THEN [hit |-> FALSE, msgs |-> <<>>, cache |-> cache]
                  ELSE [hit |-> TRUE, msgs |-> cache[i].msgs, cache |-> move_to_end(cache, i)]
    IN  At_(KeyIndex(cache, <<db_key, roles_key, stamp>>))

\* a loop test that looks at the number of entries only
OverBudget_entries_only(cache, bytes, max_entries, max_bytes) ==
    cache # <<>> /\ Len(cache) > max_entries

\* a loop that never evicts the last entry left
OverBudget_keeping_last(cache, bytes, max_entries, max_bytes) ==
    Len(cache) > 1 /\ (Len(cache) > max_entries \/ bytes > max_bytes)

\* the loop test of line 314 under the two limits it reads
OverBudget(cache, bytes, max_entries, max_bytes) ==
    cache # <<>> /\ (Len(cache) > max_entries \/ bytes > max_bytes)

\* popitem(last=True)
popitem_newest(cache) ==
    [item |-> cache[Len(cache)], cache |-> SubSeq(cache, 1, Len(cache) - 1)]

\* _FULL_CACHE.popitem(last=False) (line 315)
popitem(cache) == [item |-> cache[1], cache |-> Tail(cache)]

\* the eviction loop of _full_cache_put (lines 314-316); max_entries and
\* max_bytes are the module globals _FULL_CACHE_MAX_ENTRIES and
\* _FULL_CACHE_MAX_BYTES as the loop test reads them
RECURSIVE EvictOldest(_, _, _, _)
EvictOldest(cache, bytes, max_entries, max_bytes) ==
    IF OverBudget(cache, bytes, max_entries, max_bytes)
    THEN EvictOldest(popitem(cache).cache, bytes - popitem(cache).item.b, max_entries,
                     max_bytes)
    ELSE [cache |-> cache, bytes |-> bytes]

\* a put that stores nothing
_full_cache_put_dropping(cache, bytes, max_entries, max_bytes, db_key, roles_key, stamp, msgs) ==
    [cache |-> cache, bytes |-> bytes]

\* a put that stores the first message only
_full_cache_put_first_only(cache, bytes, max_entries, max_bytes, db_key, roles_key, stamp, msgs) ==
    LET Store(k, kept, b, i) ==
            EvictOldest(Append(IF i = 0 THEN cache ELSE RemoveAt(cache, i),
                               [k |-> k, msgs |-> kept, b |-> b]),
                        (IF i = 0 THEN bytes ELSE bytes - cache[i].b) + b,
                        max_entries, max_bytes)
        Keep(k, kept) == Store(k, kept, _approx_messages_bytes(kept), KeyIndex(cache, k))
    IN  Keep(<<db_key, roles_key, stamp>>, SubSeq(msgs, 1, IntMin(1, Len(msgs))))

\* lines 302-316 on the cache, its byte total and the two limits
_full_cache_put(cache, bytes, max_entries, max_bytes, db_key, roles_key, stamp, msgs) ==
    LET Store(k, b, i) ==
            EvictOldest(Append(IF i = 0 THEN cache ELSE RemoveAt(cache, i),
                               [k |-> k, msgs |-> msgs, b |-> b]),
                        (IF i = 0 THEN bytes ELSE bytes - cache[i].b) + b,
                        max_entries, max_bytes)
        Key(k) == Store(k, _approx_messages_bytes(msgs), KeyIndex(cache, k))
    IN  Key(<<db_key, roles_key, stamp>>)

(***************************************************************************)
(* The state machine: one store that its writer appends to, the process's  *)
(* cache, and the observation of the last call.                            *)
(***************************************************************************)
VARIABLES blobs, meta, _FULL_CACHE, _FULL_CACHE_BYTES, last,
          \* the callers of the cache functions, one statement at a time
          _FULL_CACHE_LOCK, threads, touched, limits,
          \* the two scanners' generators over one buffer, one iteration at a time
          scanner,
          \* the two brace matchers over one object, one byte at a time
          matcher

vars == <<blobs, meta, _FULL_CACHE, _FULL_CACHE_BYTES, last, _FULL_CACHE_LOCK, threads, touched, limits,
          scanner, matcher>>

\* no object is being matched
NotMatching ==
    [data |-> <<>>, tags |-> <<>>, start |-> 0, end |-> 0,
     embedded |-> WalkFrom(0), balanced |-> WalkFrom(0)]

\* no buffer is being scanned
NotScanning ==
    [tokens |-> <<>>, data |-> <<>>, roles |-> <<>>, anchored |-> GenInit, embedded |-> GenInit,
     max_objects |-> MAX_OBJECTS, iterations |-> [anchored |-> 0, embedded |-> 0],
     caught |-> {}, raised |-> "", out |-> None, fallbacks |-> 0, objs |-> 0]

\* what the statement-level callers add to the state
callerVars == <<_FULL_CACHE_LOCK, threads, touched, limits>>

\* most concurrent callers of the cache functions
MaxThreads == 2
Threads == 1..MaxThreads

\* a thread that is in none of the cache functions
NotCalling == [op |-> "none", pc |-> 0, k |-> <<>>, msgs |-> <<>>, b |-> 0, tmp |-> None]

\* no thread is inside a cache function; the limits are those of lines 252-253
NoCallers ==
    /\ _FULL_CACHE_LOCK = None
    /\ threads = [t \in Threads |-> NotCalling]
    /\ touched = <<>>
    /\ limits = <<_FULL_CACHE_MAX_ENTRIES, _FULL_CACHE_MAX_BYTES>>


(***************************************************************************)
(* The read-only connection and the two public extractions, one statement  *)
(* at a time.  A thread in a call carries the call's arguments, the URI    *)
(* in use, the statements run on its connection and what _op has bound so  *)
(* far; pc is the line of agent_store.py whose statement it runs next      *)
(* (646: _op is to start on the next URI), 0 outside a call.  What a call  *)
(* that returns has done goes into the observation: connections opened,    *)
(* statements run, rows read, objects consumed, json.loads calls.          *)
(***************************************************************************)
_tune_readonly_connection ==
    <<"PRAGMA query_only=ON;", "PRAGMA temp_store=MEMORY;",
      "PRAGMA cache_size=-8000;", "PRAGMA mmap_size=268435456;">>

\* store_db.as_posix() of the one store
DB_KEY == "store.db"

\* the failures of one call: the store file is there or not, each of the two
\* URIs of _connect_ro_uris connects or raises, and on each connection the
\* statements in failing raise sqlite3.Error
NoFault == [exists |-> TRUE, opens |-> <<TRUE, TRUE>>, failing |-> <<{}, {}>>]

\* lines 271-289: a failing fingerprint query gives the stamp (0, 0)
_blobs_stamp_on(table, failing) ==
    IF Q_STAMP \in failing THEN <<0, 0>> ELSE _blobs_stamp(table)

\* a thread outside a call.  In a call: conn is the URI in use (0: none yet),
\* conns the connections opened, ran the statements run on the connection in
\* use, read_at and scan_at the number of rows the table held at the first
\* query on that connection and at the row query, ex what the scan gave; in a
\* preview, latest_root_blob_id is the id asked for and m the record that
\* read_chat_meta_and_preview has read
NotExtracting ==
    [pc |-> 0, op |-> "none", max_messages |-> None, max_blobs |-> None, roles |-> <<>>,
     fault |-> NoFault, conn |-> 0, conns |-> 0, ran |-> <<>>, stamp |-> <<0, 0>>,
     read_at |-> 0, scan_at |-> 0, ex |-> NoScan, latest_root_blob_id |-> <<>>, m |-> None]

\* op run without a connection being counted
_with_ro_connection_unopened(th, uri) == [th EXCEPT !.conn = uri, !.ran = <<>>]

\* lines 45-46: the URI connects and is tuned; op starts on the new connection
_with_ro_connection(th, uri) == [th EXCEPT !.conn = uri, !.conns = @ + 1, !.ran = <<>>]

\* the URI the loop of line 42 comes to after th's: one that does not connect
\* raises at line 45 and is passed over (0: the loop is over)
NextUri(th) == MinOr({uri \in (th.conn + 1)..2 : th.fault.opens[uri]}, 0)

\* the test of lines 641 and 696
Cached(th) == th.max_blobs = None /\ th.fault.exists

\* what a call that returns has done.  by is the connection whose _op
\* returned (0: none did, and the function returns []), errors the statements
\* that raised sqlite3.Error on the last connection used
Observed(th, ret, by, hit, put) ==
    [op |-> th.op, max_messages |-> th.max_messages, max_blobs |-> th.max_blobs,
     roles |-> th.roles, args |-> <<th.max_messages, th.max_blobs>>, fault |-> th.fault,
     raised |-> "", ret |-> ret, by |-> by, hit |-> hit, put |-> put,
     looked |-> th.ran # <<>> /\ th.ran[1] = Q_STAMP,
     loads |-> th.ex.loads, objs |-> th.ex.objs, rows_read |-> th.ex.rows_read,
     fallbacks |-> th.ex.fallbacks, conns |-> th.conns,
     queries |-> IF th.conn = 0 THEN <<>> ELSE _tune_readonly_connection \o th.ran,
     errors |-> IF th.conn = 0 THEN {}
                ELSE {th.ran[i] : i \in 1..Len(th.ran)} \cap th.fault.failing[th.conn],
     stamp |-> th.stamp, read_at |-> th.read_at, scan_at |-> th.scan_at,
     returned_at |-> Len(blobs)]

\* an early return that has opened the store first
NoCall_connected(th) == Observed(_with_ro_connection(th, 1), <<>>, 0, FALSE, FALSE)

\* the return of lines 636-637 and 690-691: nothing was done
NoCall(th) == Observed(th, <<>>, 0, FALSE, FALSE)

\* no call has returned since the last result was taken
Unobserved ==
    [op |-> "none", max_messages |-> None, max_blobs |-> None,
     roles |-> <<>>, args |-> <<>>, fault |-> NoFault,
     raised |-> "", ret |-> <<>>, by |-> 0, hit |-> FALSE, put |-> FALSE,
     looked |-> FALSE, loads |-> 0, objs |-> 0, rows_read |-> 0,
     fallbacks |-> 0, conns |-> 0, queries |-> <<>>, errors |-> {},
     stamp |-> <<0, 0>>, read_at |-> 0, scan_at |-> 0, returned_at |-> 0]

\* cached[-max_messages:] (line 659), or cached itself (line 658)
RecentWindow(max_messages, cached) ==
    IF max_messages = None THEN cached ELSE LastN(cached, max_messages[1])

\* cached[-max_messages:] or cached (lines 657-659), cached[:max_messages] (line 704)
ServedFrom(th, cached) ==
    IF th.op = "recent" THEN RecentWindow(th.max_messages, cached)
    ELSE FirstN(cached, th.max_messages[1])

\* a put under a fingerprint read again after the scan
PutStamp_reread(stamp, table) == _blobs_stamp(table)

\* the stamp _op passes to _full_cache_put (line 656) is the one it read at line 646
PutStamp(stamp, table) == stamp

\* the call of _extract_messages_from_connection th's _op makes (lines
\* 649-655 and 705-711 with the cache, 664-671 and 716-723 without)
ScanOf(th, table) ==
    IF Cached(th)
    THEN _extract_messages_from_connection(
             table, IF th.op = "recent" THEN None ELSE th.max_messages, None, th.roles,
             th.op = "initial", ExtractFrames)
    ELSE _extract_messages_from_connection(table, th.max_messages, th.max_blobs, th.roles,
                                           th.op = "initial", ExtractFrames)
\* no thread is inside a call; the limits are those of lines 252-253
NoExtractors ==
    /\ _FULL_CACHE_LOCK = None
    /\ threads = [t \in Threads |-> NotExtracting]
    /\ touched = <<>>
    /\ limits = <<_FULL_CACHE_MAX_ENTRIES, _FULL_CACHE_MAX_BYTES>>

MaxMessagesArgs == {None} \cup {Some(n) : n \in (0 - Negatives)..MaxN}
MaxBlobsArgs == {None} \cup {Some(n) : n \in (0 - Negatives)..MaxB}

\* no returned list waits for its caller to take it
Quiet == last.op = "none"

Init ==
    /\ blobs = <<>>
    /\ meta = <<>>
    /\ scanner = NotScanning
    /\ matcher = NotMatching
    /\ _FULL_CACHE = <<>>
    /\ _FULL_CACHE_BYTES = 0
    /\ last = Unobserved
    /\ NoExtractors

\* the store's writer inserts a row
AppendBlob(b) ==
    /\ Quiet
    /\ Len(blobs) < MaxBlobs
    /\ blobs' = Append(blobs, b)
    /\ UNCHANGED <<meta, scanner, matcher, _FULL_CACHE, _FULL_CACHE_BYTES, last>>
    /\ UNCHANGED callerVars

\* thread t's call returns obs
Return(t, obs) ==
    /\ last' = obs
    /\ threads' = [threads EXCEPT ![t] = NotExtracting]

\* thread t's call goes on as th
GoOn(t, th) ==
    /\ last' = Unobserved
    /\ threads' = [threads EXCEPT ![t] = th]

\* the row query of th's _op and the scan ex of its rows.  A query that raises
\* sqlite3.Error ends the attempt (lines 48-50): the loop goes to the next
\* URI, and after the last one the function returns [].  The scan of a
\* cached extract_recent_messages is put next; any other is returned.
RunScan(t, th, ex) ==
    IF \E i \in 1..Len(ex.queries) : ex.queries[i] \in th.fault.failing[th.conn]
    THEN IF NextUri(th) = 0
         THEN Return(t, Observed([th EXCEPT !.ran = @ \o ex.queries], <<>>, 0, FALSE, FALSE))
         ELSE GoOn(t, [th EXCEPT !.ran = @ \o ex.queries, !.pc = 646])
    ELSE IF Cached(th) /\ th.op = "recent"
         THEN GoOn(t, [th EXCEPT !.ran = @ \o ex.queries, !.ex = ex,
                                 !.scan_at = Len(blobs), !.pc = 656])
         ELSE Return(t, Observed([th EXCEPT !.ran = @ \o ex.queries, !.ex = ex,
                                            !.scan_at = Len(blobs)],
                                 ex.ret, th.conn, FALSE, FALSE))

\* the loop of _with_ro_connection (lines 41-57) from the URI after th's: the
\* next URI that connects is tuned and _op runs its first statement on it,
\* the fingerprint query (lines 646, 701) or, without the cache, its row
\* query; when no URI is left the function returns [] (lines 674, 726)
Connect(t, th) ==
    IF NextUri(th) = 0 THEN Return(t, Observed(th, <<>>, 0, FALSE, FALSE))
    ELSE \E on \in {_with_ro_connection(th, NextUri(th))} :
             IF Cached(on)
             THEN GoOn(t, [on EXCEPT !.pc = 647,
                                     !.ran = <<Q_STAMP>>,
                                     !.stamp = _blobs_stamp_on(blobs, on.fault.failing[on.conn]),
                                     !.read_at = Len(blobs)])
             ELSE \E ex \in {ScanOf(on, blobs)} :
                      RunScan(t, [on EXCEPT !.read_at = Len(blobs)], ex)

\* thread t calls extract_recent_messages: the early return of lines
\* 636-637, or the first connection and the first statement of _op
ExtractRecent(t, max_messages, max_blobs, roles, fault) ==
    /\ Quiet
    /\ threads[t].pc = 0
    /\ \E th \in {[NotExtracting EXCEPT !.op = "recent", !.max_messages = max_messages,
                                        !.max_blobs = max_blobs, !.roles = roles,
                                        !.fault = fault]} :
           IF max_messages # None /\ max_messages[1] <= 0
           THEN Return(t, NoCall(th))
           ELSE Connect(t, th)
    /\ UNCHANGED <<blobs, meta, scanner, matcher, _FULL_CACHE, _FULL_CACHE_BYTES>>
    /\ UNCHANGED <<_FULL_CACHE_LOCK, touched, limits>>

\* thread t calls extract_initial_messages: the early return of lines
\* 690-691, or the first connection and the first statement of _op
ExtractInitial(t, max_messages, max_blobs, roles, fault) ==
    /\ Quiet
    /\ threads[t].pc = 0
    /\ \E th \in {[NotExtracting EXCEPT !.op = "initial", !.max_messages = Some(max_messages),
                                        !.max_blobs = max_blobs, !.roles = roles,
                                        !.fault = fault]} :
           IF max_messages <= 0
           THEN Return(t, NoCall(th))
           ELSE Connect(t, th)
    /\ UNCHANGED <<blobs, meta, scanner, matcher, _FULL_CACHE, _FULL_CACHE_BYTES>>
    /\ UNCHANGED <<_FULL_CACHE_LOCK, touched, limits>>

\* after sqlite3.Error on a connection (lines 48-50): the next URI connects
\* and _op starts again
Reconnect(t) ==
    /\ Quiet
    /\ threads[t].pc = 646
    /\ Connect(t, threads[t])
    /\ UNCHANGED <<blobs, meta, scanner, matcher, _FULL_CACHE, _FULL_CACHE_BYTES>>
    /\ UNCHANGED <<_FULL_CACHE_LOCK, touched, limits>>

\* cached = _full_cache_get(db_key, roles_key, stamp) (lines 647, 702); a hit
\* is returned (lines 657-659, 703-704)
LookUp(t) ==
    /\ Quiet
    /\ threads[t].pc = 647
    /\ \E got \in {_full_cache_get(_FULL_CACHE, DB_KEY, threads[t].roles, threads[t].stamp)} :
           /\ _FULL_CACHE' = got.cache
           /\ IF got.hit
              THEN Return(t, Observed(threads[t], ServedFrom(threads[t], got.msgs),
                                      threads[t].conn, TRUE, FALSE))
              ELSE GoOn(t, [threads[t] EXCEPT !.pc = 649])
    /\ UNCHANGED <<blobs, meta, scanner, matcher, _FULL_CACHE_BYTES>>
    /\ UNCHANGED <<_FULL_CACHE_LOCK, touched, limits>>

\* _extract_messages_from_connection(con, ...) after a miss (lines 649-655,
\* 705-711): the row query reads the table as it is now
ScanTable(t) ==
    /\ Quiet
    /\ threads[t].pc = 649
    /\ \E ex \in {ScanOf(threads[t], blobs)} : RunScan(t, threads[t], ex)
    /\ UNCHANGED <<blobs, meta, scanner, matcher, _FULL_CACHE, _FULL_CACHE_BYTES>>
    /\ UNCHANGED <<_FULL_CACHE_LOCK, touched, limits>>

\* _full_cache_put(db_key, roles_key, stamp, cached) and the return (lines 656-659)
PutEntry(t) ==
    /\ Quiet
    /\ threads[t].pc = 656
    /\ \E put \in {_full_cache_put(_FULL_CACHE, _FULL_CACHE_BYTES, limits[1], limits[2], DB_KEY,
                                   threads[t].roles, PutStamp(threads[t].stamp, blobs),
                                   threads[t].ex.ret)} :
           /\ _FULL_CACHE' = put.cache
           /\ _FULL_CACHE_BYTES' = put.bytes
    /\ Return(t, Observed(threads[t], ServedFrom(threads[t], threads[t].ex.ret),
                          threads[t].conn, FALSE, TRUE))
    /\ UNCHANGED <<blobs, meta, scanner, matcher>>
    /\ UNCHANGED <<_FULL_CACHE_LOCK, touched, limits>>

\* the caller takes the list its call returned (lines 674, 726)
TakeResult ==
    /\ ~Quiet
    /\ last' = Unobserved
    /\ UNCHANGED <<blobs, meta, scanner, matcher, _FULL_CACHE, _FULL_CACHE_BYTES>>
    /\ UNCHANGED callerVars

\* _clear_caches_for_tests
ClearCaches ==
    /\ Quiet
    /\ _FULL_CACHE' = <<>>
    /\ _FULL_CACHE_BYTES' = 0
    /\ UNCHANGED <<blobs, meta, scanner, matcher, last>>
    /\ UNCHANGED callerVars

\* the roles argument's default (lines 627, 682)
DefaultRoles == <<USER, ASSISTANT>>

\* the calls followed side by side are those of the default roles on a cache
\* of the default roles: the first caller starts a call that uses the cache
\* with other roles while the second is in none
Apart(max_blobs, roles) ==
    max_blobs # None \/ roles = DefaultRoles \/ threads[MaxThreads].pc = 0

\* the second caller starts beside a call of the default roles, on a cache
\* that holds no entry of other roles
Beside ==
    /\ threads[1].pc = 0 \/ threads[1].roles = DefaultRoles
    /\ \A i \in 1..Len(_FULL_CACHE) : _FULL_CACHE[i].k[2] = DefaultRoles

\* the first caller makes any call; the second makes the unbounded call of
\* the default roles
Next ==
    \/ \E b \in BlobVocab : AppendBlob(b)
    \/ \E mm \in MaxMessagesArgs, mb \in MaxBlobsArgs, roles \in RoleChoices :
           Apart(mb, roles) /\ ExtractRecent(1, mm, mb, roles, NoFault)
    \/ \E n \in (0 - Negatives)..MaxN, mb \in MaxBlobsArgs, roles \in RoleChoices :
           Apart(mb, roles) /\ ExtractInitial(1, n, mb, roles, NoFault)
    \/ Beside /\ ExtractRecent(MaxThreads, None, None, DefaultRoles, NoFault)
    \/ \E t \in Threads : LookUp(t)
    \/ \E t \in Threads : ScanTable(t)
    \/ \E t \in Threads : PutEntry(t)
    \/ TakeResult
    \/ ClearCaches

Spec == Init /\ [][Next]_vars

(***************************************************************************)
(* The cache under concurrent callers.  Each thread runs _full_cache_get,  *)
(* _full_cache_put or _clear_caches_for_tests one statement at a time; pc  *)
(* is the line of agent_store.py the thread executes next, 0 outside the   *)
(* three functions.  _FULL_CACHE_LOCK is None or Some(the holder).         *)
(* limits holds the module globals _FULL_CACHE_MAX_ENTRIES and             *)
(* _FULL_CACHE_MAX_BYTES as line 314 reads them.  touched records the      *)
(* keys that were hit or put and not evicted or cleared since, in the      *)
(* order of their last hit or put.                                         *)
(***************************************************************************)
\* limits of the scaled-down cache: entries, approximate bytes
SmallMaxEntries == 2
SmallMaxBytes == 50

\* keys of one store at three of its stamps
CacheKey(i) == <<DB_KEY, <<USER, ASSISTANT>>, <<i, i>>>>
CacheKeys == {CacheKey(1), CacheKey(_FULL_CACHE_MAX_ENTRIES), CacheKey(_FULL_CACHE_MAX_ENTRIES + 1)}

\* message lists of 37 and 79 approximate bytes
CacheMsgs ==
    {<<<<USER, <<"a">>>>>>,
     <<<<USER, <<"a">>>>, <<ASSISTANT, <<"b">>>>>>}

\* a cache one entry short of _FULL_CACHE_MAX_ENTRIES: the histories of a
\* store without messages at its first stamps
Prefilled ==
    [i \in 1..(_FULL_CACHE_MAX_ENTRIES - 1) |-> [k |-> CacheKey(i), msgs |-> <<>>, b |-> 0]]

\* "with _FULL_CACHE_LOCK:" that enters without waiting for the holder
LockFree_unguarded(lock) == TRUE

\* "with _FULL_CACHE_LOCK:" enters when no thread holds the lock
LockFree(lock) == lock = None

Untouch(order, k) == SelectSeq(order, LAMBDA x : x # k)
Touch(order, k) == Append(Untouch(order, k), k)

CacheInit ==
    /\ blobs = <<>>
    /\ meta = <<>>
    /\ scanner = NotScanning
    /\ matcher = NotMatching
    /\ last = Unobserved
    /\ _FULL_CACHE_BYTES = 0
    /\ _FULL_CACHE_LOCK = None
    /\ threads = [t \in Threads |-> NotCalling]
    /\ \/ /\ limits = <<_FULL_CACHE_MAX_ENTRIES, _FULL_CACHE_MAX_BYTES>>
          /\ _FULL_CACHE = Prefilled
          /\ touched = [i \in 1..Len(Prefilled) |-> Prefilled[i].k]
       \/ /\ limits = <<SmallMaxEntries, SmallMaxBytes>>
          /\ _FULL_CACHE = <<>>
          /\ touched = <<>>

\* a thread calls one of the three functions; lines 293, 304-305
CacheCall(t, op, k, msgs) ==
    /\ threads[t].pc = 0
    /\ threads' = [threads EXCEPT ![t] =
                       [op |-> op,
                        pc |-> CASE op = "get" -> 294 [] op = "put" -> 306 [] op = "clear" -> 258,
                        k |-> k, msgs |-> msgs, b |-> _approx_messages_bytes(msgs),
                        tmp |-> None]]
    /\ UNCHANGED <<blobs, meta, scanner, matcher, last, _FULL_CACHE, _FULL_CACHE_BYTES, _FULL_CACHE_LOCK, touched, limits>>

\* _full_cache_get, lines 294-299
CacheGet(t) ==
    LET th == threads[t]
        i == KeyIndex(_FULL_CACHE, th.k)
    IN  /\ th.op = "get"
        /\ \/ /\ th.pc = 294
              /\ LockFree(_FULL_CACHE_LOCK)
              /\ _FULL_CACHE_LOCK' = Some(t)
              /\ threads' = [threads EXCEPT ![t].pc = 295]
              /\ UNCHANGED <<_FULL_CACHE, touched>>
           \/ /\ th.pc = 295
              /\ i = 0
              /\ threads' = [threads EXCEPT ![t] = NotCalling]
              /\ _FULL_CACHE_LOCK' = None
              /\ UNCHANGED <<_FULL_CACHE, touched>>
           \/ /\ th.pc = 295
              /\ i # 0
              /\ threads' = [threads EXCEPT ![t].pc = 298, ![t].tmp = Some(_FULL_CACHE[i])]
              /\ touched' = Touch(touched, th.k)
              /\ UNCHANGED <<_FULL_CACHE, _FULL_CACHE_LOCK>>
           \/ /\ th.pc = 298
              \* k is present: the lock is held since the lookup
              /\ _FULL_CACHE' = IF i = 0 THEN _FULL_CACHE ELSE move_to_end(_FULL_CACHE, i)
              /\ threads' = [threads EXCEPT ![t].pc = 299]
              /\ UNCHANGED <<_FULL_CACHE_LOCK, touched>>
           \/ /\ th.pc = 299
              \* return hit[0]
              /\ threads' = [threads EXCEPT ![t] = NotCalling]
              /\ _FULL_CACHE_LOCK' = None
              /\ UNCHANGED <<_FULL_CACHE, touched>>
        /\ UNCHANGED <<blobs, meta, scanner, matcher, last, _FULL_CACHE_BYTES, limits>>

\* _full_cache_put, lines 306-316
CachePut(t) ==
    LET th == threads[t]
        i == KeyIndex(_FULL_CACHE, th.k)
        entry == [k |-> th.k, msgs |-> th.msgs, b |-> th.b]
    IN  /\ th.op = "put"
        /\ \/ /\ th.pc = 306
              /\ LockFree(_FULL_CACHE_LOCK)
              /\ _FULL_CACHE_LOCK' = Some(t)
              /\ threads' = [threads EXCEPT ![t].pc = 307]
              /\ UNCHANGED <<_FULL_CACHE, _FULL_CACHE_BYTES, touched>>
           \/ /\ th.pc = 307
              /\ threads' = [threads EXCEPT ![t].pc = 308,
                                            ![t].tmp = IF i = 0 THEN None ELSE Some(_FULL_CACHE[i])]
              /\ _FULL_CACHE' = IF i = 0 THEN _FULL_CACHE ELSE RemoveAt(_FULL_CACHE, i)
              /\ UNCHANGED <<_FULL_CACHE_BYTES, _FULL_CACHE_LOCK, touched>>
           \/ /\ th.pc = 308
              /\ _FULL_CACHE_BYTES' = IF th.tmp = None THEN _FULL_CACHE_BYTES
                                      ELSE _FULL_CACHE_BYTES - th.tmp[1].b
              /\ threads' = [threads EXCEPT ![t].pc = 310]
              /\ UNCHANGED <<_FULL_CACHE, _FULL_CACHE_LOCK, touched>>
           \/ /\ th.pc = 310
              /\ _FULL_CACHE' = IF i = 0 THEN Append(_FULL_CACHE, entry)
                                ELSE [_FULL_CACHE EXCEPT ![i] = entry]
              /\ touched' = Touch(touched, th.k)
              /\ threads' = [threads EXCEPT ![t].pc = 311]
              /\ UNCHANGED <<_FULL_CACHE_BYTES, _FULL_CACHE_LOCK>>
           \/ /\ th.pc = 311
              /\ _FULL_CACHE_BYTES' = _FULL_CACHE_BYTES + th.b
              /\ threads' = [threads EXCEPT ![t].pc = 312]
              /\ UNCHANGED <<_FULL_CACHE, _FULL_CACHE_LOCK, touched>>
           \/ /\ th.pc = 312
              /\ _FULL_CACHE' = IF i = 0 THEN _FULL_CACHE ELSE move_to_end(_FULL_CACHE, i)
              /\ threads' = [threads EXCEPT ![t].pc = 314]
              /\ UNCHANGED <<_FULL_CACHE_BYTES, _FULL_CACHE_LOCK, touched>>
           \/ /\ th.pc = 314
              /\ OverBudget(_FULL_CACHE, _FULL_CACHE_BYTES, limits[1], limits[2])
              /\ threads' = [threads EXCEPT ![t].pc = 315]
              /\ UNCHANGED <<_FULL_CACHE, _FULL_CACHE_BYTES, _FULL_CACHE_LOCK, touched>>
           \/ /\ th.pc = 314
              /\ ~OverBudget(_FULL_CACHE, _FULL_CACHE_BYTES, limits[1], limits[2])
              /\ threads' = [threads EXCEPT ![t] = NotCalling]
              /\ _FULL_CACHE_LOCK' = None
              /\ UNCHANGED <<_FULL_CACHE, _FULL_CACHE_BYTES, touched>>
           \/ /\ th.pc = 315
              /\ _FULL_CACHE' = popitem(_FULL_CACHE).cache
              /\ threads' = [threads EXCEPT ![t].pc = 316,
                                            ![t].tmp = Some(popitem(_FULL_CACHE).item)]
              /\ touched' = Untouch(touched, popitem(_FULL_CACHE).item.k)
              /\ UNCHANGED <<_FULL_CACHE_BYTES, _FULL_CACHE_LOCK>>
           \/ /\ th.pc = 316
              /\ _FULL_CACHE_BYTES' = _FULL_CACHE_BYTES - th.tmp[1].b
              /\ threads' = [threads EXCEPT ![t].pc = 314]
              /\ UNCHANGED <<_FULL_CACHE, _FULL_CACHE_LOCK, touched>>
        /\ UNCHANGED <<blobs, meta, scanner, matcher, last, limits>>

\* _clear_caches_for_tests, lines 258-260
CacheClear(t) ==
    LET th == threads[t]
    IN  /\ th.op = "clear"
        /\ \/ /\ th.pc = 258
              /\ LockFree(_FULL_CACHE_LOCK)
              /\ _FULL_CACHE_LOCK' = Some(t)
              /\ threads' = [threads EXCEPT ![t].pc = 259]
              /\ UNCHANGED <<_FULL_CACHE, _FULL_CACHE_BYTES, touched>>
           \/ /\ th.pc = 259
              /\ _FULL_CACHE' = <<>>
              /\ touched' = <<>>
              /\ threads' = [threads EXCEPT ![t].pc = 260]
              /\ UNCHANGED <<_FULL_CACHE_BYTES, _FULL_CACHE_LOCK>>
           \/ /\ th.pc = 260
              /\ _FULL_CACHE_BYTES' = 0
              /\ threads' = [threads EXCEPT ![t] = NotCalling]
              /\ _FULL_CACHE_LOCK' = None
              /\ UNCHANGED <<_FULL_CACHE, touched>>
        /\ UNCHANGED <<blobs, meta, scanner, matcher, last, limits>>

CacheNext ==
    \/ \E t \in Threads, k \in CacheKeys : CacheCall(t, "get", k, <<>>)
    \/ \E t \in Threads, k \in CacheKeys, msgs \in CacheMsgs : CacheCall(t, "put", k, msgs)
    \/ \E t \in Threads : CacheCall(t, "clear", <<>>, <<>>)
    \/ \E t \in Threads : CacheGet(t)
    \/ \E t \in Threads : CachePut(t)
    \/ \E t \in Threads : CacheClear(t)

CacheSpec == CacheInit /\ [][CacheNext]_vars

(***************************************************************************)
(* The store read under faults: the meta table, the blob named by an id,   *)
(* the last-message preview, and connections and statements that raise     *)
(* sqlite3.Error.  A row of meta is <<key, value>> with key a str and      *)
(* value a str or NULL (the column has TEXT affinity); the id of the       *)
(* blobs row with rowid r is the decimal str(r).                            *)
(***************************************************************************)
Q_META0 == "SELECT value FROM meta WHERE key='0' LIMIT 1"
Q_META == "SELECT key, value FROM meta"
Q_BLOB == "SELECT data FROM blobs WHERE id=? LIMIT 1"

SQLITE_ERROR == "sqlite3.Error"
ATTRIBUTE_ERROR == "AttributeError"

PyNone == [t |-> "null", v |-> <<>>]

\* "x = v; F(x)": the value of v is computed once and bound, as Python binds
\* the result of a call to a local name
Once(v, F(_)) == CHOOSE res \in {F(x) : x \in {v}} : TRUE

\* an operation on a connection ends in a return value or in an exception;
\* queries are the statements it executed, the one that raised included
Returned(val, queries) == [raised |-> "", ret |-> val, queries |-> queries]
Raised(exc, queries) == [raised |-> exc, ret |-> None, queries |-> queries]

\* lines 88-101: the decoded JSON value, whatever its type; PyNone where the
\* function returns None.  A str of hex digits of even length is never tried
\* as JSON itself.
_maybe_decode_hex_json(s) ==
    LET ss == Strip(s)
        n == Len(ss) \div 2
        \* binascii.unhexlify(ss)[k - 1]
        byte(k) == 16 * HexVal(ss[2 * k - 1]) + HexVal(ss[2 * k])
        cont(k) == k <= n /\ byte(k) \in 128..191
        low(k) == byte(k) - 128
        \* raw.decode("utf-8"): the bytes a character takes, by its first byte
        width(b) == IF b < 128 THEN 1 ELSE IF b \in 194..223 THEN 2
                    ELSE IF b \in 224..239 THEN 3 ELSE IF b \in 240..244 THEN 4 ELSE 0
        WellFormed(k, b) ==
            /\ width(b) > 0
            /\ \A j \in 1..(width(b) - 1) : cont(k + j)
            /\ (b = 224 => byte(k + 1) >= 160)
            /\ (b = 237 => byte(k + 1) <= 159)
            /\ (b = 240 => byte(k + 1) >= 144)
            /\ (b = 244 => byte(k + 1) <= 143)
            /\ (k + width(b) <= n => ~cont(k + width(b)))
        CodePoint(k, b) ==
            IF b < 128 THEN b
            ELSE IF b < 224 THEN (b - 192) * 64 + low(k + 1)
            ELSE IF b < 240 THEN (b - 224) * 4096 + low(k + 1) * 64 + low(k + 2)
            ELSE (b - 240) * 262144 + low(k + 1) * 4096 + low(k + 2) * 64 + low(k + 3)
        Chars(starts) == [i \in 1..Len(starts) |->
                             CodeUnitChar(CodePoint(starts[i], byte(starts[i])))]
        Loaded(r) == IF r.ok THEN r.v ELSE PyNone
        IsHex == Len(ss) % 2 = 0 /\ \A k \in 1..Len(ss) : ss[k] \in HexDigits
    IN  IF s = <<>> THEN PyNone
        ELSE IF IsHex /\ ~(~cont(1) /\ \A k \in 1..n : cont(k) \/ WellFormed(k, byte(k)))
             THEN PyNone
        ELSE Loaded(json_loads(IF IsHex
                               THEN Chars(SelectSeq([k \in 1..n |-> k], LAMBDA k : ~cont(k)))
                               ELSE ss,
                               MetaFrames))

\* the decoding of each str value of the meta vocabulary, computed once
MetaValues ==
    {table[i][2].v : <<table, i>> \in {<<t, k>> \in MetaVocab \X (1..2) :
                                          k <= Len(t) /\ IsStr(t[k][2])}}

DecodedTable == [s \in MetaValues |-> _maybe_decode_hex_json(s)]

Decoded(s) == IF s \in MetaValues THEN DecodedTable[s] ELSE _maybe_decode_hex_json(s)

UNTITLED == <<"U", "n", "t", "i", "t", "l", "e", "d">>

\* lines 132-158: the record built from meta_obj; meta_obj.get raises
\* AttributeError on a value that has no get
AgentChatMeta(meta_obj, queries) ==
    LET NonEmptyStr(val) == IsStr(val) /\ val.v # <<>>
        Opt(cond, val) == IF cond THEN Some(val.v) ELSE None
        Build(agent_id, latest_root_blob_id, name, mode, created_at_ms) ==
            IF ~NonEmptyStr(agent_id) THEN Returned(None, queries)
            ELSE Returned(Some([agent_id |-> agent_id.v,
                                latest_root_blob_id |-> Opt(NonEmptyStr(latest_root_blob_id),
                                                            latest_root_blob_id),
                                name |-> IF NonBlankStr(name) THEN name.v ELSE UNTITLED,
                                mode |-> Opt(IsStr(mode), mode),
                                \* isinstance(x, int) holds of a bool
                                created_at_ms |-> IF created_at_ms.t \in {"int", "true", "false"}
                                                  THEN Some(created_at_ms) ELSE None]),
                          queries)
    IN  IF ~IsDict(meta_obj) THEN Raised(ATTRIBUTE_ERROR, queries)
        ELSE Build(Get(meta_obj, <<"a", "g", "e", "n", "t", "I", "d">>),
                   Get(meta_obj, <<"l", "a", "t", "e", "s", "t", "R", "o", "o", "t",
                                   "B", "l", "o", "b", "I", "d">>),
                   Get(meta_obj, <<"n", "a", "m", "e">>),
                   Get(meta_obj, <<"m", "o", "d", "e">>),
                   Get(meta_obj, <<"c", "r", "e", "a", "t", "e", "d", "A", "t">>))

\* lines 104-158 on a connection whose statements in failing raise sqlite3.Error
_read_chat_meta_from_connection(table, failing) ==
    LET \* the decoded value of the key-'0' row (line 110), of the only row (line 128)
        DecodedRow ==
            [rows \in {SelectSeq(table, LAMBDA row : row[1] = <<"0">>), table} |->
                IF rows # <<>> /\ IsStr(rows[1][2]) THEN Decoded(rows[1][2].v) ELSE PyNone]
        \* lines 120-130: the flat map, or the decoded value of a single row
        Flat(decoded) ==
            AgentChatMeta(IF decoded # PyNone THEN decoded ELSE [t |-> "obj", v |-> table],
                          <<Q_META0, Q_META>>)
        Fallback ==
            IF Q_META \in failing THEN Raised(SQLITE_ERROR, <<Q_META0, Q_META>>)
            ELSE IF table = <<>> THEN Returned(None, <<Q_META0, Q_META>>)
            ELSE Flat(IF Len(table) = 1 THEN DecodedRow[table] ELSE PyNone)
        Fast(meta_obj) == IF meta_obj # PyNone THEN AgentChatMeta(meta_obj, <<Q_META0>>) ELSE Fallback
    IN  Fast(IF Q_META0 \in failing THEN PyNone
             ELSE DecodedRow[SelectSeq(table, LAMBDA row : row[1] = <<"0">>)])

\* the id of the r-th row.  The writer chooses a row's id (INSERT INTO
\* blobs(id, data)); here it is str(r), a character for each decimal digit
RECURSIVE BlobId(_)
BlobId(r) == IF r < 10 THEN <<ToString(r)>> ELSE BlobId(r \div 10) \o <<ToString(r % 10)>>

\* lines 172-181: the data of the row with that id, None where there is none
_read_blob_from_connection(table, blob_id) ==
    LET Row(S) == IF S = {} THEN None ELSE Some(table[Min(S)])
    IN  Row({r \in 1..Len(table) : BlobId(r) = blob_id})

\* the loop of lines 597-610 over the objects ys: last_role and last_text
\* after it, None where last_text stays None
LastMessage(ys) ==
    LET Kept(role, text) ==
            /\ IsStr(role)
            /\ text # None
            /\ ~(role.v = USER /\ StartsAt(LStrip(text[1]), USER_INFO_TAG, 0))
        Pair(obj) == <<Get(obj, <<"r", "o", "l", "e">>).v, _extract_text_from_message(obj)[1]>>
        Of(S) == IF S = {} THEN None ELSE Some(Pair(ys[Max(S)].obj))
    IN  Of({k \in 1..Len(ys) : Kept(Get(ys[k].obj, <<"r", "o", "l", "e">>),
                                    _extract_text_from_message(ys[k].obj))})

\* the loop's outcome for each blob of the store's vocabulary, computed once
PreviewTable ==
    [b \in StoreBlobs |->
        LastMessage(_iter_embedded_json_objects(b, DEFAULT_MAX_OBJECTS, PreviewFrames + 1).ys)]

PreviewScanned(blob) ==
    IF blob \in StoreBlobs THEN PreviewTable[blob]
    ELSE LastMessage(_iter_embedded_json_objects(blob, DEFAULT_MAX_OBJECTS,
                                                 PreviewFrames + 1).ys)

\* the statements the public functions run
Statements == {Q_STAMP, Q_META0, Q_META, Q_BLOB} \cup RowQueries

Faults ==
    {NoFault,
     [exists |-> FALSE, opens |-> <<FALSE, FALSE>>, failing |-> <<{}, {}>>],
     [exists |-> TRUE, opens |-> <<FALSE, FALSE>>, failing |-> <<{}, {}>>],
     [exists |-> TRUE, opens |-> <<FALSE, TRUE>>, failing |-> <<{}, {}>>],
     [exists |-> TRUE, opens |-> <<TRUE, TRUE>>, failing |-> <<Statements, {}>>]}
        \cup {[exists |-> TRUE, opens |-> <<TRUE, TRUE>>, failing |-> <<F, F>>] :
                 F \in {{Q_STAMP}, {Q_META0}, {Q_META}, {Q_BLOB}, RowQueries, Statements}}

\* lines 41-57 under a fault: r1 and r2 are op(con) on the connection of the
\* first and of the second URI, empty is what the public function makes of
\* the None returned when no attempt returns.  by is the attempt that
\* returned or raised (0: none), errors the statements that raised
\* sqlite3.Error on the last connection used.
Attempts(fault, empty, r1, r2) ==
    LET Errors(r, failing) == {r.queries[i] : i \in 1..Len(r.queries)} \cap failing
        Second(conns) ==
            IF fault.opens[2] /\ r2.raised # SQLITE_ERROR
            THEN [raised |-> r2.raised, ret |-> r2.ret, conns |-> conns + 1, by |-> 2,
                  errors |-> Errors(r2, fault.failing[2])]
            ELSE [raised |-> "", ret |-> empty, by |-> 0,
                  conns |-> conns + IF fault.opens[2] THEN 1 ELSE 0,
                  errors |-> IF fault.opens[2] THEN Errors(r2, fault.failing[2])
                             ELSE IF fault.opens[1] THEN Errors(r1, fault.failing[1])
                             ELSE {}]
    IN  IF fault.opens[1] /\ r1.raised # SQLITE_ERROR
        THEN [raised |-> r1.raised, ret |-> r1.ret, conns |-> 1, by |-> 1,
              errors |-> Errors(r1, fault.failing[1])]
        ELSE Second(IF fault.opens[1] THEN 1 ELSE 0)

\* _with_ro_connection under a fault: rs[c] is op(con) on the connection of
\* the c-th URI
_with_ro_connection_on(fault, empty, rs) ==
    Once(rs[1], LAMBDA r1 : Once(rs[2], LAMBDA r2 : Attempts(fault, empty, r1, r2)))

\* a public function that returns before it connects
NotOpened(empty) == [raised |-> "", ret |-> empty, conns |-> 0, by |-> 0, errors |-> {}]

\* lines 161-169
read_chat_meta(table, fault) ==
    IF ~fault.exists THEN NotOpened(None)
    ELSE _with_ro_connection_on(
             fault, None,
             [c \in 1..2 |-> _read_chat_meta_from_connection(table, fault.failing[c])])

(***************************************************************************)
(* The store machine: a store with its blobs and meta tables, read by the  *)
(* five public functions while connections and statements may fail and the *)
(* writer inserts blobs.  read_chat_meta reads the meta table only, which  *)
(* no one writes, and is one step.  The two previews read the blobs table  *)
(* with up to two statements on a connection, the blob named by the id     *)
(* (line 594) and the rows of the fallback extraction (line 614), and are  *)
(* a step for each: pc is 614 before the fallback, 751 or 767 where _op is *)
(* to start on the next URI.  read_chat_meta_and_preview reads the record  *)
(* first, with the statements on the meta table, and the blob in a step of *)
(* its own: pc is 770 between the two.  A second caller runs the unbounded *)
(* extract_recent_messages on sound connections while the first one's call *)
(* goes from statement to statement.                                       *)
(***************************************************************************)
StoreObserved(op, args, fault, res) ==
    [Unobserved EXCEPT !.op = op, !.args = args, !.fault = fault, !.raised = res.raised,
                       !.ret = res.ret, !.conns = res.conns, !.by = res.by,
                       !.errors = res.errors]

\* what a preview that returns or raises has done
PreviewObserved(th, raised, ret, by) ==
    [Unobserved EXCEPT !.op = th.op,
                       !.args = IF th.op = "preview" THEN <<th.latest_root_blob_id>> ELSE <<>>,
                       !.fault = th.fault, !.raised = raised, !.ret = ret,
                       !.conns = th.conns, !.by = by,
                       !.queries = IF th.conn = 0 THEN <<>>
                                   ELSE _tune_readonly_connection \o th.ran,
                       !.errors = IF th.conn = 0 THEN {}
                                  ELSE {th.ran[i] : i \in 1..Len(th.ran)}
                                           \cap th.fault.failing[th.conn],
                       !.read_at = th.read_at, !.scan_at = th.scan_at,
                       !.returned_at = Len(blobs)]

\* the blobs tables read beside the tests' meta table: no row, messages
\* only, a root node with and without a blob of messages after it, and the
\* blob of many objects as the first and as the second row
Tables ==
    {<<>>, <<BLOB_AB>>, <<BLOB_ROOT>>, <<BLOB_ROOT, BLOB_AB>>, <<BLOB_MANY, BLOB_AB>>,
     <<BLOB_AB, BLOB_MANY>>}

StoreInit ==
    /\ blobs \in Tables
    /\ meta \in MetaVocab
    /\ scanner = NotScanning
    /\ matcher = NotMatching
    /\ (blobs = <<BLOB_ROOT, BLOB_AB>> \/ meta = META_HEX)
    /\ _FULL_CACHE = <<>>
    /\ _FULL_CACHE_BYTES = 0
    /\ last = Unobserved
    /\ NoExtractors

ReadChatMeta(fault) ==
    /\ Quiet
    /\ last' = StoreObserved("meta", <<>>, fault, read_chat_meta(meta, fault))
    /\ UNCHANGED <<blobs, meta, scanner, matcher, _FULL_CACHE, _FULL_CACHE_BYTES>>
    /\ UNCHANGED callerVars

\* (None, None) of line 754, (None, None, None) of lines 764 and 774
NoPreview(th) == IF th.op = "preview" THEN <<None, None>> ELSE <<None, None, None>>

\* the pair _extract_last_message_preview_from_connection returns, as the
\* call returns it: alone (line 751), or after the record read (line 771)
PreviewReturned(th, role, text) ==
    IF th.op = "preview" THEN <<role, text>> ELSE <<th.m, role, text>>

\* a statement of th's _op raised sqlite3.Error (lines 48-50): the loop goes
\* to the next URI, and after the last one the function returns its empty
\* result
PreviewFailed(t, th) ==
    IF NextUri(th) = 0 THEN Return(t, PreviewObserved(th, "", NoPreview(th), 0))
    ELSE GoOn(t, [th EXCEPT !.pc = IF th.op = "preview" THEN 751 ELSE 767])

\* lines 594-612: the blob named by the id is read from the table as it is
\* now and scanned; the last message found is returned, and with none the
\* fallback of line 614 is next
PreviewRead(t, th) ==
    LET Scan(found) ==
            IF found # None
            THEN Return(t, PreviewObserved(th, "", PreviewReturned(th, Some(found[1][1]),
                                                                   Some(found[1][2])),
                                           th.conn))
            ELSE GoOn(t, [th EXCEPT !.pc = 614])
        Blob(blob) == Scan(IF blob # None /\ blob[1] # <<>> THEN PreviewScanned(blob[1])
                           ELSE None)
    IN  IF Q_BLOB \in th.fault.failing[th.conn] THEN PreviewFailed(t, th)
        ELSE Blob(_read_blob_from_connection(blobs, th.latest_root_blob_id))

\* lines 767-769: the record is read; without one, or without a root blob id
\* in it, the call returns (line 769), and an exception that is no
\* sqlite3.Error leaves the call; with a root blob id the preview of line
\* 770 is next
PreviewAfterMeta(t, th, m) ==
    IF m.raised = SQLITE_ERROR THEN PreviewFailed(t, [th EXCEPT !.ran = m.queries])
    ELSE IF m.raised # ""
    THEN Return(t, PreviewObserved([th EXCEPT !.ran = m.queries], m.raised, None, th.conn))
    ELSE IF m.ret = None \/ m.ret[1].latest_root_blob_id = None
    THEN Return(t, PreviewObserved([th EXCEPT !.ran = m.queries], "", <<m.ret, None, None>>,
                                   th.conn))
    ELSE GoOn(t, [th EXCEPT !.ran = m.queries, !.m = m.ret, !.pc = 770,
                            !.latest_root_blob_id = m.ret[1].latest_root_blob_id[1]])

\* the loop of _with_ro_connection from the URI after th's: the next URI
\* that connects is tuned and _op runs its first statements on it, the blob
\* read of extract_last_message_preview or the record's
PreviewConnect(t, th) ==
    IF NextUri(th) = 0 THEN Return(t, PreviewObserved(th, "", NoPreview(th), 0))
    ELSE \E on \in {[_with_ro_connection(th, NextUri(th)) EXCEPT !.read_at = Len(blobs)]} :
             IF on.op = "preview" THEN PreviewRead(t, [on EXCEPT !.ran = <<Q_BLOB>>])
             ELSE PreviewAfterMeta(t, on, _read_chat_meta_from_connection(
                                              meta, on.fault.failing[on.conn]))

\* thread t calls extract_last_message_preview (lines 749-754)
LastMessagePreview(t, fault, latest_root_blob_id) ==
    /\ Quiet
    /\ threads[t].pc = 0
    /\ PreviewConnect(t, [NotExtracting EXCEPT !.op = "preview", !.fault = fault,
                                               !.latest_root_blob_id = latest_root_blob_id])
    /\ UNCHANGED <<blobs, meta, scanner, matcher, _FULL_CACHE, _FULL_CACHE_BYTES>>
    /\ UNCHANGED <<_FULL_CACHE_LOCK, touched, limits>>

\* thread t calls read_chat_meta_and_preview (lines 757-774)
ReadChatMetaAndPreview(t, fault) ==
    /\ Quiet
    /\ threads[t].pc = 0
    /\ \E th \in {[NotExtracting EXCEPT !.op = "meta_and_preview", !.fault = fault]} :
           IF ~fault.exists THEN Return(t, PreviewObserved(th, "", NoPreview(th), 0))
           ELSE PreviewConnect(t, th)
    /\ UNCHANGED <<blobs, meta, scanner, matcher, _FULL_CACHE, _FULL_CACHE_BYTES>>
    /\ UNCHANGED <<_FULL_CACHE_LOCK, touched, limits>>

\* after sqlite3.Error on a connection (lines 48-50): the next URI connects
\* and the preview's _op starts again
PreviewReconnect(t) ==
    /\ Quiet
    /\ threads[t].pc \in {751, 767}
    /\ PreviewConnect(t, threads[t])
    /\ UNCHANGED <<blobs, meta, scanner, matcher, _FULL_CACHE, _FULL_CACHE_BYTES>>
    /\ UNCHANGED <<_FULL_CACHE_LOCK, touched, limits>>

\* the preview of line 770, after the record was read: the blob named by
\* its root blob id is read from the table as it is now
PreviewBlobRead(t) ==
    /\ Quiet
    /\ threads[t].pc = 770
    /\ PreviewRead(t, [threads[t] EXCEPT !.ran = Append(@, Q_BLOB)])
    /\ UNCHANGED <<blobs, meta, scanner, matcher, _FULL_CACHE, _FULL_CACHE_BYTES>>
    /\ UNCHANGED <<_FULL_CACHE_LOCK, touched, limits>>

\* lines 615-619: the last of msgs, (None, None) without one
FallbackReturned(th, msgs) ==
    IF msgs # <<>>
    THEN PreviewReturned(th, Some(msgs[Len(msgs)][1]), Some(msgs[Len(msgs)][2]))
    ELSE PreviewReturned(th, None, None)

\* the fallback of line 614: the extraction over the last 200 rows of the
\* table as it is now, stopped at one message
PreviewFallback(t) ==
    /\ Quiet
    /\ threads[t].pc = 614
    /\ \E th \in {[threads[t] EXCEPT !.ran = Append(@, Q_ROWS_DESC_LIMIT),
                                      !.scan_at = Len(blobs)]} :
           IF Q_ROWS_DESC_LIMIT \in th.fault.failing[th.conn] THEN PreviewFailed(t, th)
           ELSE Return(t, PreviewObserved(
                              th, "",
                              FallbackReturned(th, _extract_messages_from_connection(
                                                       blobs, Some(1), Some(200),
                                                       <<USER, ASSISTANT>>, FALSE,
                                                       PreviewFrames + 1).ret),
                              th.conn))
    /\ UNCHANGED <<blobs, meta, scanner, matcher, _FULL_CACHE, _FULL_CACHE_BYTES>>
    /\ UNCHANGED <<_FULL_CACHE_LOCK, touched, limits>>

\* the faults that fail no statement, or one that the operation runs
FaultsOn(statements) == {fault \in Faults : fault.failing[1] = {}
                                              \/ fault.failing[1] \cap statements # {}}

StoreNext ==
    \/ AppendBlob(BLOB_AB)
    \/ \E fault \in FaultsOn({Q_META0, Q_META}) : ReadChatMeta(fault)
    \/ \E fault \in FaultsOn({Q_BLOB} \cup RowQueries), r \in 1..MaxBlobs :
           LastMessagePreview(1, fault, BlobId(r))
    \/ \E fault \in FaultsOn({Q_META0, Q_META, Q_BLOB} \cup RowQueries) :
           ReadChatMetaAndPreview(1, fault)
    \/ \E t \in Threads : PreviewReconnect(t)
    \/ \E t \in Threads : PreviewBlobRead(t)
    \/ \E t \in Threads : PreviewFallback(t)
    \/ \E fault \in FaultsOn({Q_STAMP} \cup RowQueries), limit \in {None, Some(1)} :
           ExtractRecent(1, limit, limit, <<USER, ASSISTANT>>, fault)
    \/ \E fault \in FaultsOn({Q_STAMP} \cup RowQueries) :
           ExtractInitial(1, 1, None, <<USER, ASSISTANT>>, fault)
    \/ ExtractRecent(MaxThreads, None, None, <<USER, ASSISTANT>>, NoFault)
    \/ \E t \in Threads : Reconnect(t)
    \/ \E t \in Threads : LookUp(t)
    \/ \E t \in Threads : ScanTable(t)
    \/ \E t \in Threads : PutEntry(t)
    \/ TakeResult

StoreSpec == StoreInit /\ [][StoreNext]_vars

(***************************************************************************)
(* The scanners one iteration at a time.  A buffer is a concatenation of   *)
(* tokens: stray braces and quotes, the role marker as plain text, a       *)
(* balanced span that is no UTF-8, a balanced span that is no JSON, and    *)
(* message objects with accepted and unaccepted roles.  The role-anchored  *)
(* generator is run to exhaustion, then the balanced-object generator,     *)
(* then the extractor's loop body on the buffer as a store's only blob.    *)
(***************************************************************************)
\* most tokens in a buffer
MaxTokens == 3
\* the small max_objects argument the generators are run with, besides the
\* extractor's MAX_OBJECTS
FewObjects == 1

\* {"role":"tool","content":"t"}
MSG_TOOL ==
    <<"{", "\"", "r", "o", "l", "e", "\"", ":", "\"", "t", "o", "o", "l", "\"", ",", "\"", "c",
      "o", "n", "t", "e", "n", "t", "\"", ":", "\"", "t", "\"", "}">>
\* {\xff}: balanced, and chunk.decode("utf-8") raises
SPAN_NOT_UTF8 == <<"{", "xFF", "}">>
\* {"role"}: balanced, with the marker, and json.loads raises
SPAN_NOT_JSON == <<LBRACE>> \o ROLE_MARKER \o <<RBRACE>>

\* {"content":"{{{{{{{{{{{{{{{{","role":"user"}: a message object with
\* MAX_CANDIDATES braces between its opening brace and its role marker
MSG_USER_FAR ==
    <<"{", "\"", "c", "o", "n", "t", "e", "n", "t", "\"", ":", "\"">>
        \o [k \in 1..MAX_CANDIDATES |-> LBRACE]
        \o <<"\"", ",">> \o ROLE_MARKER \o <<":", "\"", "u", "s", "e", "r", "\"", "}">>

Tokens ==
    {<<LBRACE>>, <<RBRACE>>, <<QUOTE>>, ROLE_MARKER, SPAN_NOT_UTF8, SPAN_NOT_JSON,
     MSG_USER_A, MSG_ASSISTANT_B, MSG_TOOL, MSG_USER_FAR, MSG_USER_INFO}

TokenLists == UNION {[1..k -> Tokens] : k \in 0..MaxTokens}

\* b"".join(tokens[:k])
RECURSIVE Join(_, _)
Join(tokens, k) == IF k = 0 THEN <<>> ELSE Join(tokens, k - 1) \o tokens[k]

\* the exception json.loads(chunk.decode("utf-8")) raises on data[start:end+1]
\* (lines 229-230 and 361-362), "" when it returns
DecodeRaises(data, start, end_inclusive, frames) ==
    IF ~Utf8Ok(Slice(data, start, end_inclusive + 1)) THEN "UnicodeDecodeError"
    ELSE json_loads(Slice(data, start, end_inclusive + 1), frames).exc

\* "except" naming json.JSONDecodeError alone
Exception_json_only == {"JSONDecodeError"}

\* "except Exception" (lines 236 and 363): of the exceptions the try bodies
\* raise, the ones the clause catches
Exception == {"UnicodeDecodeError", "JSONDecodeError", "ValueError", "RecursionError"}

\* the exception raised inside the try of lines 228-237 in the iteration that
\* starts in state g, "" when none is
EmbeddedRaises(data, g, max_objects) ==
    LET Closed(start, hit) == IF hit = -1 THEN "" ELSE DecodeRaises(data, start, hit, EmbeddedFrames)
        From(start) ==
            IF start = -1 THEN ""
            ELSE Closed(start, RunEmbeddedWalk(data, WalkFrom(start), Len(data) - start).hit)
    IN  IF ~(g.i < Len(data) /\ g.found < max_objects) THEN ""
        ELSE From(Find(data, <<LBRACE>>, g.i))

\* the exceptions raised inside _parse_json_dict_from_span (lines 359-364) for
\* the candidates that the iteration starting in state g tries: all of them
\* when none is accepted, else those up to the accepted one
AnchoredRaises(data, g, roles_set, max_objects) ==
    LET Span(s, end) == IF end = -1 THEN "" ELSE DecodeRaises(data, s, end, SpanFrames)
        Tried(candidates, res) ==
            {candidates[c] : c \in {c \in 1..Len(candidates) :
                                      res.ok => candidates[c] >= res.start}}
        Of(tried) ==
            {Span(s, _scan_balanced_object_end(data, s, MAX_OBJ_LEN)) : s \in tried} \ {""}
        Marker(role_pos) ==
            IF role_pos = -1 THEN {}
            ELSE Of(Tried(CollectCandidates(data, IntMax(0, role_pos - BACK_WINDOW), role_pos,
                                            MAX_CANDIDATES, <<>>),
                          _find_enclosing_message_obj_around_role(data, role_pos, roles_set,
                                                                  BACK_WINDOW, MAX_CANDIDATES,
                                                                  MAX_OBJ_LEN, AnchoredFrames + 1)))
    IN  IF ~(g.i < Len(data) /\ g.found < max_objects) THEN {}
        ELSE Marker(Find(data, ROLE_MARKER, g.i))

\* lines 429-435: the generator before its first iteration
AnchoredStart(data, roles) ==
    IF data = <<>> THEN [GenInit EXCEPT !.done = TRUE]
    ELSE IF roles = <<>> THEN [GenInit EXCEPT !.done = TRUE]
    ELSE IF ~Contains(data, <<LBRACE>>) \/ ~Contains(data, ROLE_MARKER)
         THEN [GenInit EXCEPT !.done = TRUE]
    ELSE GenInit

\* a store whose only blob is the buffer
ScannerInit ==
    /\ \E tokens \in TokenLists, roles \in RoleChoices, max_objects \in {FewObjects, MAX_OBJECTS} :
           scanner = [NotScanning EXCEPT !.tokens = tokens,
                                         !.max_objects = max_objects,
                                         !.data = Join(tokens, Len(tokens)),
                                         !.roles = roles,
                                         !.anchored = AnchoredStart(Join(tokens, Len(tokens)), roles)]
    /\ blobs = <<scanner.data>>
    /\ meta = <<>>
    /\ matcher = NotMatching
    /\ _FULL_CACHE = <<>>
    /\ _FULL_CACHE_BYTES = 0
    /\ last = Unobserved
    /\ NoCallers

\* an exception raised in an iteration leaves the generator unless the except
\* clause catches it
Iterated(field, raises, g) ==
    IF raises \subseteq Exception
    THEN [scanner EXCEPT ![field] = g, !.iterations[field] = @ + 1, !.caught = @ \cup raises]
    ELSE [scanner EXCEPT !.raised = CHOOSE exc \in raises \ Exception : TRUE]

\* one iteration of the while loop of _iter_message_objects_role_anchored
AnchoredNext ==
    /\ scanner.raised = ""
    /\ ~scanner.anchored.done
    /\ scanner' = Iterated("anchored",
                AnchoredRaises(scanner.data, scanner.anchored,
                               {scanner.roles[k] : k \in 1..Len(scanner.roles)},
                               scanner.max_objects),
                AnchoredIterStep(scanner.data, scanner.anchored,
                                 {scanner.roles[k] : k \in 1..Len(scanner.roles)},
                               scanner.max_objects, AnchoredFrames))
    /\ UNCHANGED <<blobs, meta, matcher, _FULL_CACHE, _FULL_CACHE_BYTES, last>>
    /\ UNCHANGED callerVars

\* one iteration of the outer while loop of _iter_embedded_json_objects
EmbeddedNext ==
    /\ scanner.raised = ""
    /\ scanner.anchored.done
    /\ ~scanner.embedded.done
    /\ scanner' = Iterated("embedded",
                {EmbeddedRaises(scanner.data, scanner.embedded, scanner.max_objects)} \ {""},
                EmbeddedIterStep(scanner.data, scanner.embedded, scanner.max_objects, EmbeddedFrames))
    /\ UNCHANGED <<blobs, meta, matcher, _FULL_CACHE, _FULL_CACHE_BYTES, last>>
    /\ UNCHANGED callerVars

\* the extractor's loop body (lines 531-580) on the buffer as the only row
ExtractFromBlob ==
    /\ scanner.raised = ""
    /\ scanner.anchored.done
    /\ scanner.embedded.done
    /\ scanner.out = None
    /\ \E st \in {ScanBlob(ScanInit, blobs[1], scanner.roles, FALSE, None, ExtractFrames)} :
           scanner' = [scanner EXCEPT !.out = Some(st.out),
                                      !.fallbacks = st.fallbacks,
                                      !.objs = st.objs]
    /\ UNCHANGED <<blobs, meta, matcher, _FULL_CACHE, _FULL_CACHE_BYTES, last>>
    /\ UNCHANGED callerVars

ScannerNext ==
    \/ AnchoredNext
    \/ EmbeddedNext
    \/ ExtractFromBlob

ScannerSpec == ScannerInit /\ [][ScannerNext]_vars

(***************************************************************************)
(* The two brace matchers one byte at a time, on well-formed JSON objects  *)
(* whose strings hold braces, escaped quotes and escaped backslashes.  An  *)
(* object is built with a tag on every byte: "s" outside strings, "q" an   *)
(* opening quote, "c" string content, "x" the byte after a backslash, "e"  *)
(* a closing quote.                                                        *)
(***************************************************************************)
\* most pieces in a string's content
MaxPieces == 3

Tagged(bytes, tag) == [k \in 1..Len(bytes) |-> <<bytes[k], tag>>]

\* what a string's content is made of: { } \" \\ a
StrPieces ==
    {Tagged(<<LBRACE>>, "c"), Tagged(<<RBRACE>>, "c"), Tagged(<<"a">>, "c"),
     <<<<BACKSLASH, "c">>, <<QUOTE, "x">>>>, <<<<BACKSLASH, "c">>, <<BACKSLASH, "x">>>>}

StrContents == UNION {[1..k -> StrPieces] : k \in 0..MaxPieces}

StrLit(content) == <<<<QUOTE, "q">>>> \o content \o <<<<QUOTE, "e">>>>

\* {"k":"<content>"}
FlatObject(content) ==
    Tagged(<<LBRACE>>, "s") \o StrLit(Tagged(<<"k">>, "c")) \o Tagged(<<":">>, "s")
        \o StrLit(content) \o Tagged(<<RBRACE>>, "s")

\* {"k":{"k":"<content>"},"m":"}"}
NestedObject(content) ==
    Tagged(<<LBRACE>>, "s") \o StrLit(Tagged(<<"k">>, "c")) \o Tagged(<<":">>, "s")
        \o FlatObject(content) \o Tagged(<<",">>, "s") \o StrLit(Tagged(<<"m">>, "c"))
        \o Tagged(<<":">>, "s") \o StrLit(Tagged(<<RBRACE>>, "c")) \o Tagged(<<RBRACE>>, "s")

TaggedObjects ==
    {FlatObject(Join(c, Len(c))) : c \in StrContents}
        \cup {NestedObject(Join(c, Len(c))) : c \in StrContents}

BytesOf(tagged) == [k \in 1..Len(tagged) |-> tagged[k][1]]
TagsOf(tagged) == [k \in 1..Len(tagged) |-> tagged[k][2]]

\* what precedes and follows the object in the buffer
MatcherPrefixes == {<<>>, NUL}
MatcherSuffixes == {<<>>, <<RBRACE>>, <<QUOTE, RBRACE>>}

\* the objects are well-formed: json.loads accepts each as a dict
MatcherInputs ==
    {[data |-> pre \o BytesOf(obj) \o suf, tags |-> TagsOf(obj),
      start |-> Len(pre), end |-> Len(pre) + Len(obj) - 1] :
        pre \in MatcherPrefixes, suf \in MatcherSuffixes,
        obj \in {o \in TaggedObjects : json_loads(BytesOf(o), SpanFrames).ok /\ IsDict(json_loads(BytesOf(o), SpanFrames).v)}}

MatcherInit ==
    /\ \E input \in MatcherInputs :
           matcher = [data |-> input.data, tags |-> input.tags, start |-> input.start,
                      end |-> input.end, embedded |-> WalkFrom(input.start),
                      balanced |-> WalkFrom(input.start)]
    /\ blobs = <<>>
    /\ meta = <<>>
    /\ scanner = NotScanning
    /\ _FULL_CACHE = <<>>
    /\ _FULL_CACHE_BYTES = 0
    /\ last = Unobserved
    /\ NoCallers

\* one iteration of the inner while loop of _iter_embedded_json_objects (lines 210-239)
EmbeddedWalk ==
    /\ matcher.embedded.hit = -1
    /\ matcher.embedded.j < Len(matcher.data)
    /\ matcher' = [matcher EXCEPT !.embedded = EmbeddedWalkStep(matcher.data, @)]
    /\ UNCHANGED <<blobs, meta, scanner, _FULL_CACHE, _FULL_CACHE_BYTES, last>>
    /\ UNCHANGED callerVars

\* one iteration of the while loop of _scan_balanced_object_end (lines 334-352)
BalancedWalk ==
    /\ matcher.embedded.hit # -1 \/ matcher.embedded.j >= Len(matcher.data)
    /\ matcher.balanced.hit = -1
    /\ matcher.balanced.j < IntMin(Len(matcher.data), matcher.start + IntMax(0, MAX_OBJ_LEN))
    /\ matcher' = [matcher EXCEPT !.balanced = BalancedEndStep(matcher.data, @)]
    /\ UNCHANGED <<blobs, meta, scanner, _FULL_CACHE, _FULL_CACHE_BYTES, last>>
    /\ UNCHANGED callerVars

MatcherNext ==
    \/ EmbeddedWalk
    \/ BalancedWalk

MatcherSpec == MatcherInit /\ [][MatcherNext]_vars

(***************************************************************************)
(* Concurrent callers of the two cached extractions and the store's        *)
(* writer.  A call with max_blobs=None is a sequence of statements on its  *)
(* own connection: the fingerprint query, the cache lookup, the row query  *)
(* with the scan of its rows, and for extract_recent_messages the cache    *)
(* put.  Each cache function runs under the lock and each query reads the  *)
(* table as it is when it runs; the writer's inserts and the other         *)
(* threads' statements come in between.  A row query that raises           *)
(* sqlite3.Error sends _with_ro_connection to its second URI, where _op    *)
(* starts again.  A call's last statement and its return are one step: the *)
(* return touches nothing shared.  Here every thread makes either call,    *)
(* on sound connections or on connections whose row queries raise.         *)
(***************************************************************************)
\* the blobs the writer appends while calls are running, each any number of
\* times: rows with the same data differ by their ids
RaceBlobs == {BLOB_D, BLOB_AB}

RaceRoles == <<USER, ASSISTANT>>

\* the row queries raise on both connections
RowsFail == [exists |-> TRUE, opens |-> <<TRUE, TRUE>>, failing |-> <<RowQueries, RowQueries>>]

RaceFaults == {NoFault, RowsFail}

\* the store is empty and so is the cache, which has the module's limits or
\* those of the scaled-down cache; with the latter the history of BLOB_D
\* (37 approximate bytes) fits and every history with the messages of
\* BLOB_AB (79 and more) exceeds the byte limit
RaceInit ==
    /\ blobs = <<>>
    /\ meta = <<>>
    /\ scanner = NotScanning
    /\ matcher = NotMatching
    /\ _FULL_CACHE = <<>>
    /\ _FULL_CACHE_BYTES = 0
    /\ last = Unobserved
    /\ _FULL_CACHE_LOCK = None
    /\ threads = [t \in Threads |-> NotExtracting]
    /\ touched = <<>>
    /\ limits \in {<<_FULL_CACHE_MAX_ENTRIES, _FULL_CACHE_MAX_BYTES>>,
                   <<SmallMaxEntries, SmallMaxBytes>>}

RaceNext ==
    \/ \E b \in RaceBlobs : AppendBlob(b)
    \/ \E t \in Threads, fault \in RaceFaults : ExtractRecent(t, None, None, RaceRoles, fault)
    \/ \E t \in Threads, n \in 1..MaxN, fault \in RaceFaults :
           ExtractInitial(t, n, None, RaceRoles, fault)
    \/ \E t \in Threads : Reconnect(t)
    \/ \E t \in Threads : LookUp(t)
    \/ \E t \in Threads : ScanTable(t)
    \/ \E t \in Threads : PutEntry(t)
    \/ TakeResult

RaceSpec == RaceInit /\ [][RaceNext]_vars

(***************************************************************************)
(* Properties.  What a call should return is stated from the messages of   *)
(* the rows it selects, in scan order.                                     *)
(***************************************************************************)
\* the pairs among a generator's keys, in document order
PairsOf(keys) == [k \in 1..Len(keys) |-> keys[k][1]]

\* the pairs one blob contributes, in document order
BlobPairs(scan) ==
    IF ~scan.prefilter THEN <<>>
    ELSE PairsOf(SelectSeq(IF Len(scan.anchored.ys) > 0 THEN scan.anchored.keys
                           ELSE scan.embedded.keys,
                           LAMBDA key : key # None))

BlobMessages(blob, roles) == BlobPairs(Scanned(blob, roles, ExtractFrames))

\* every pair occurrence among rows, ascending rows, document order inside a row
RECURSIVE Occurrences(_, _, _)
Occurrences(rows, roles, r) ==
    IF r = 0 THEN <<>> ELSE Occurrences(rows, roles, r - 1) \o BlobMessages(rows[r], roles)

\* seq with every element kept at its first occurrence only
RECURSIVE FirstOccurrences(_, _)
FirstOccurrences(seq, k) ==
    IF k = 0 THEN <<>>
    ELSE IF \E j \in 1..(k - 1) : seq[j] = seq[k] THEN FirstOccurrences(seq, k - 1)
    ELSE Append(FirstOccurrences(seq, k - 1), seq[k])

Dedup(seq) == FirstOccurrences(seq, Len(seq))

\* H, the deduplicated full history of a store
History(table, roles) == Dedup(Occurrences(table, roles, Len(table)))

MinOf(a, b) == IF a <= b THEN a ELSE b

FirstMin(seq, n) == SubSeq(seq, 1, MinOf(n, Len(seq)))
LastMin(seq, n) == SubSeq(seq, Len(seq) - MinOf(n, Len(seq)) + 1, Len(seq))

IsCall == last.op \in {"recent", "initial"}

\* the store as it was when it held n rows: rows are only appended
TableAt(n) == SubSeq(blobs, 1, n)

\* the numbers of rows the store held between the first query of the call
\* that returned and its return
Overlapped == last.read_at..last.returned_at

\* the step is one of a call of op: its return, or a statement of a thread in it
StepOf(op) ==
    \/ last'.op = op
    \/ \E t \in Threads : threads'[t] # threads[t] /\ op \in {threads[t].op, threads'[t].op}

\* thread t runs the cache lookup of its call of op
LooksUp(t, op) == threads[t].pc = 647 /\ threads[t].op = op /\ threads'[t] # threads[t]
Unbounded(arg) == arg = None
Positive(arg) == arg # None /\ arg[1] > 0

\* C1: for any store content and any role set, the extractor's role-anchored
\* path returns the same ordered list as the tests' slow reference, which runs
\* the same policy with the balanced-object scanner on every blob.
C1_AnchoredEqualsReference ==
    \A roles \in RoleChoices, from_start \in BOOLEAN :
        _extract_messages_from_connection(blobs, None, None, roles, from_start, ExtractFrames).ret
            = _extract_messages_slow_reference(blobs, None, None, roles, from_start)

\* the call returned the head or the tail of H, N long at most
HeadOrTail(H, N) ==
    /\ last.op = "initial" => last.ret = FirstMin(H, N)
    /\ last.op = "recent" => last.ret = LastMin(H, N)

\* C2: with max_blobs unbounded and N > 0, extract_initial_messages(N) returns
\* the first min(N, |H|) elements of H and extract_recent_messages(N) the last
\* min(N, |H|) elements of H, in H's order, H being the history of the store
\* as the call read it: of a state between the call's fingerprint query and
\* its return, which is the store itself when no row came in meanwhile.
C2_InitialHeadRecentTail ==
    (IsCall /\ Unbounded(last.max_blobs) /\ Positive(last.max_messages)) =>
        \E n \in Overlapped : HeadOrTail(History(TableAt(n), last.roles), last.max_messages[1])

\* C2 witness: a recent call and an initial call cut a history longer than N,
\* the initial one stopping early in a store of two blobs.
C2_Witness ==
    /\ last.op = "initial" /\ ~last.hit
    /\ Unbounded(last.max_blobs) /\ last.max_messages = Some(2)
    /\ Len(blobs) = 2 /\ Len(History(blobs, last.roles)) > 2
    /\ last.ret = FirstMin(History(blobs, last.roles), 2)

\* the rows a call selects: all, the first max_blobs, or the last max_blobs
SelectedRows(table) ==
    IF Unbounded(last.max_blobs) THEN table
    ELSE IF last.op = "initial" THEN FirstMin(table, last.max_blobs[1])
    ELSE LastMin(table, last.max_blobs[1])

\* the window of seq that max_messages asks for
WindowOf(seq) ==
    IF Unbounded(last.max_messages) THEN seq
    ELSE IF last.op = "initial" THEN FirstMin(seq, last.max_messages[1])
    ELSE LastMin(seq, last.max_messages[1])

\* C3: no returned list holds the same (role, text) pair twice, adjacent or
\* not; the list is a window of the scanned pairs with each pair kept once,
\* at its first occurrence in scan order, the rows scanned being those of the
\* store as the call read it.
C3_NoDuplicates ==
    IsCall =>
        /\ \A i, j \in 1..Len(last.ret) : i # j => last.ret[i] # last.ret[j]
        /\ \E n \in Overlapped :
               last.ret = WindowOf(Dedup(Occurrences(SelectedRows(TableAt(n)), last.roles,
                                                     Len(SelectedRows(TableAt(n))))))

\* C3 witness: an uncached scan over rows where a pair occurs again after
\* another pair, and the call returns every pair once.
C3_Witness ==
    /\ IsCall /\ ~last.hit /\ Unbounded(last.max_messages)
    /\ LET occ == Occurrences(SelectedRows(blobs), last.roles, Len(SelectedRows(blobs)))
       IN  /\ \E i, j \in 1..Len(occ) : j > i + 1 /\ occ[i] = occ[j]
           /\ last.ret = Dedup(occ)
           /\ Len(last.ret) < Len(occ)

\* the cache key of a store state and a roles argument
KeyOf(table, roles) == <<DB_KEY, roles, _blobs_stamp(table)>>

\* the cached entries under key k (at most one)
EntriesAt(cache, k) == SelectSeq(cache, LAMBDA e : e.k = k)
Others(cache, k) == SelectSeq(cache, LAMBDA e : e.k # k)

\* the cache holds an entry for the store's current fingerprint and roles
Fresh(roles) == EntriesAt(_FULL_CACHE, KeyOf(blobs, roles)) # <<>>

RanQuery(obs, q) == \E i \in 1..Len(obs.queries) : obs.queries[i] = q
NoScanDone(obs) ==
    /\ obs.loads = 0 /\ obs.objs = 0 /\ obs.rows_read = 0
    /\ \A q \in RowQueries : ~RanQuery(obs, q)

UncachedFull(roles) == _extract_messages_from_connection(blobs, None, None, roles, FALSE, ExtractFrames).ret

\* C4: over appends and extract_recent_messages calls with max_blobs=None,
\* every call returns what an uncached extraction of the store's content at
\* the time of the call returns: of a content the store had between the
\* call's fingerprint query and its return, never of an older one.  Every
\* append changes the fingerprint: the store's successive contents have
\* pairwise different fingerprints.
C4_RecentMatchesCurrentStore ==
    /\ (last.op = "recent" /\ Unbounded(last.max_blobs)
            /\ (Unbounded(last.max_messages) \/ Positive(last.max_messages))) =>
           \E n \in Overlapped :
               last.ret = _extract_messages_from_connection(TableAt(n), last.max_messages, None,
                                                            last.roles, FALSE, ExtractFrames).ret
    /\ \A i, j \in 0..Len(blobs) :
           i < j => _blobs_stamp(SubSeq(blobs, 1, i)) # _blobs_stamp(SubSeq(blobs, 1, j))

\* C4 witness: an unbounded recent call after an append, while the cache still
\* holds the list stored for the same roles before the append.
C4_Witness ==
    /\ last.op = "recent" /\ Unbounded(last.max_blobs) /\ Unbounded(last.max_messages)
    /\ last.put /\ Len(blobs) = 2
    /\ \E i \in 1..Len(_FULL_CACHE) :
           /\ _FULL_CACHE[i].k[2] = last.roles
           /\ _FULL_CACHE[i].k[3] = _blobs_stamp(SubSeq(blobs, 1, 1))
           /\ _FULL_CACHE[i].msgs # last.ret
    /\ last.ret = UncachedFull(last.roles)

\* the cache key of a thread in a call and of the call that returned
KeyRead(th) == <<DB_KEY, th.roles, th.stamp>>

\* an unbounded extract_recent_messages call that one of its connections
\* served has returned
RecentFullReturned(obs) ==
    /\ obs.op = "recent" /\ Unbounded(obs.max_messages) /\ Unbounded(obs.max_blobs)
    /\ obs.by # 0

\* the call of thread t looks up a fingerprint under which its roles have a
\* cached list: it decodes no JSON, scans no blob and returns that list
ServedWhenCached(t) ==
    (LooksUp(t, "recent") /\ Unbounded(threads[t].max_messages)
         /\ EntriesAt(_FULL_CACHE, KeyRead(threads[t])) # <<>>) =>
        /\ last'.op = "recent" /\ last'.hit
        /\ NoScanDone(last')
        /\ last'.ret = EntriesAt(_FULL_CACHE, KeyRead(threads[t]))[1].msgs

\* the call that returned left its list cached under the fingerprint it read
\* and its roles, which is the store's fingerprint when no row came in
\* during the call
LeftCached ==
    /\ EntriesAt(_FULL_CACHE', KeyRead(last')) # <<>>
    /\ EntriesAt(_FULL_CACHE', KeyRead(last'))[1].msgs = last'.ret
    /\ last'.read_at = last'.returned_at => KeyRead(last') = KeyOf(blobs', last'.roles)

\* the call that returned scanned, and its put evicted every entry, its own
\* included (lines 314-316): the cache is empty
LeftNothing ==
    /\ last'.put /\ ~last'.hit
    /\ last'.ret = _extract_messages_from_connection(SubSeq(blobs', 1, last'.scan_at), None, None,
                                                     last'.roles, FALSE, ExtractFrames).ret
    /\ _FULL_CACHE' = <<>> /\ _FULL_CACHE_BYTES' = 0

\* the call of thread t looks up a fingerprint under which its roles have no
\* cached list: it goes on to the row query and the scan
ScansWhenNotCached(t) ==
    (LooksUp(t, "recent") /\ EntriesAt(_FULL_CACHE, KeyRead(threads[t])) = <<>>) =>
        /\ threads'[t].pc = 649
        /\ last'.op = "none"

\* C5 as stated: every unbounded extract_recent_messages call leaves its list
\* cached under the fingerprint it read and its roles, so that a second call
\* on the unchanged store decodes no JSON, scans no blob and returns the same
\* list, whatever the size of the history.
C5_SecondCallServedFromCache ==
    [][/\ RecentFullReturned(last') => LeftCached
       /\ \A t \in Threads : ServedWhenCached(t)]_vars

\* C5: an unbounded extract_recent_messages call whose history is within the
\* cache's byte budget leaves its list cached under the fingerprint it read
\* and its roles, which is the store's fingerprint when no row came in during
\* the call; a call that reads a fingerprint under which its roles have a
\* cached list (as a second call on the unchanged store then does, the cache
\* not being cleared) decodes no JSON, scans no blob and returns that list.
\* A call whose history exceeds the byte budget leaves the cache empty, and
\* a call that finds no list under its fingerprint scans the table again.
C5_SecondCallServedWithinBudget ==
    [][/\ RecentFullReturned(last') =>
              IF _approx_messages_bytes(last'.ret) <= limits[2] THEN LeftCached ELSE LeftNothing
       /\ \A t \in Threads : ServedWhenCached(t) /\ ScansWhenNotCached(t)]_vars

\* C5 witness: an unbounded recent call on a store of two blobs served from
\* the cache with a non-empty list and no decode.
C5_Witness ==
    /\ last.op = "recent" /\ Unbounded(last.max_messages) /\ Unbounded(last.max_blobs)
    /\ last.hit /\ last.loads = 0 /\ Len(blobs) = 2
    /\ Len(last.ret) > 1 /\ last.ret = UncachedFull(last.roles)

\* C6: when the cache holds an entry for the fingerprint the call read and
\* the requested roles, extract_initial_messages(N, max_blobs=None) returns
\* the first N elements of the cached list, decodes no JSON, and returns what
\* the uncached from-start scan of the store returns for N: of the store as
\* it is when the fingerprint is still the store's, of a state the call
\* overlapped otherwise.
C6_InitialFromCache ==
    [][\A t \in Threads :
           (LooksUp(t, "initial") /\ EntriesAt(_FULL_CACHE, KeyRead(threads[t])) # <<>>) =>
               LET cached == EntriesAt(_FULL_CACHE, KeyRead(threads[t]))[1].msgs
               IN  /\ last'.op = "initial" /\ last'.hit
                   /\ last'.ret = FirstMin(cached, last'.max_messages[1])
                   /\ last'.loads = 0 /\ last'.objs = 0
                   /\ \E n \in last'.read_at..last'.returned_at :
                          last'.ret = _extract_messages_from_connection(
                                          SubSeq(blobs, 1, n), last'.max_messages, None,
                                          last'.roles, TRUE, ExtractFrames).ret
                   /\ last'.stamp = _blobs_stamp(blobs) =>
                          last'.ret = _extract_messages_from_connection(
                                          blobs, last'.max_messages, None, last'.roles,
                                          TRUE, ExtractFrames).ret]_vars

\* C6 witness: an initial call cuts a cached list longer than N.
C6_Witness ==
    /\ last.op = "initial" /\ Unbounded(last.max_blobs) /\ Fresh(last.roles)
    /\ last.hit /\ last.max_messages = Some(1)
    /\ Len(EntriesAt(_FULL_CACHE, KeyOf(blobs, last.roles))[1].msgs) > 1
    /\ Len(last.ret) = 1

\* C7 as stated: only recent calls with max_messages=None and max_blobs=None
\* read or write the cache; a recent call with a bounded max_messages or a
\* bounded max_blobs leaves the cache unchanged and does not look into it.
C7_OnlyUnboundedCallsUseCache ==
    [][(last'.op = "recent"
        /\ ~(Unbounded(last'.max_messages) /\ Unbounded(last'.max_blobs)))
       => (/\ _FULL_CACHE' = _FULL_CACHE
           /\ _FULL_CACHE_BYTES' = _FULL_CACHE_BYTES
           /\ ~last'.looked)]_vars

\* C7 amended: a recent call with max_blobs=None and max_messages None or
\* positive uses the cache: when it returns, the entry of the fingerprint it
\* read and the roles is the most recent one and holds the unbounded full
\* history of the store as the call or the call that stored it scanned it,
\* the other entries keep their order, and a hit scans nothing; the call's
\* other statements leave the cache unchanged; any other recent call does not
\* look into the cache and leaves it unchanged.
C7_RecentCacheUse ==
    [][/\ last'.op = "recent" =>
           IF Unbounded(last'.max_blobs)
              /\ (Unbounded(last'.max_messages) \/ Positive(last'.max_messages))
           THEN LET k == KeyRead(last')
                    n == Len(_FULL_CACHE')
                IN  /\ last'.looked
                    /\ n > 0 /\ _FULL_CACHE'[n].k = k
                    /\ \E m \in last'.read_at..last'.returned_at :
                           _FULL_CACHE'[n].msgs
                               = _extract_messages_from_connection(
                                     SubSeq(blobs, 1, m), None, None, last'.roles, FALSE, ExtractFrames).ret
                    /\ last'.put =>
                           _FULL_CACHE'[n].msgs
                               = _extract_messages_from_connection(
                                     SubSeq(blobs, 1, last'.scan_at), None, None, last'.roles,
                                     FALSE, ExtractFrames).ret
                    /\ Others(_FULL_CACHE', k) = Others(_FULL_CACHE, k)
                    /\ Len(EntriesAt(_FULL_CACHE', k)) = 1
                    /\ last'.hit =>
                           (/\ NoScanDone(last')
                            /\ _FULL_CACHE_BYTES' = _FULL_CACHE_BYTES
                            /\ EntriesAt(_FULL_CACHE', k) = EntriesAt(_FULL_CACHE, k))
           ELSE /\ ~last'.looked
                /\ _FULL_CACHE' = _FULL_CACHE
                /\ _FULL_CACHE_BYTES' = _FULL_CACHE_BYTES
       /\ (StepOf("recent") /\ last'.op # "recent") =>
              (_FULL_CACHE' = _FULL_CACHE /\ _FULL_CACHE_BYTES' = _FULL_CACHE_BYTES)]_vars

\* C7 witness: a recent call with max_messages=1 has stored a history of more
\* than one message.
C7_Witness ==
    /\ last.op = "recent" /\ last.max_messages = Some(1) /\ Unbounded(last.max_blobs)
    /\ last.put /\ Len(last.ret) = 1
    /\ Len(_FULL_CACHE[Len(_FULL_CACHE)].msgs) > 1

\* C8: extract_initial_messages never populates the cache: hit or miss, the
\* key set, the stored lists and the byte total are the same after each of
\* the call's statements as before it.
C8_InitialNeverPopulates ==
    [][StepOf("initial") =>
        /\ {_FULL_CACHE'[i] : i \in 1..Len(_FULL_CACHE')}
               = {_FULL_CACHE[i] : i \in 1..Len(_FULL_CACHE)}
        /\ Len(_FULL_CACHE') = Len(_FULL_CACHE)
        /\ _FULL_CACHE_BYTES' = _FULL_CACHE_BYTES]_vars

\* C8 witness: an initial call missed a populated cache, scanned the store and
\* left no entry for its key.
C8_Witness ==
    /\ last.op = "initial" /\ last.looked /\ ~last.hit /\ last.loads > 0
    /\ Len(last.ret) > 0 /\ Len(_FULL_CACHE) > 0
    /\ EntriesAt(_FULL_CACHE, KeyRead(last)) = <<>>

\* C9 as stated: extract_initial_messages leaves the cache's entries, byte
\* total and recency order unchanged, also when served from a cached entry.
C9_InitialLeavesOrder ==
    [][StepOf("initial") =>
        (_FULL_CACHE' = _FULL_CACHE /\ _FULL_CACHE_BYTES' = _FULL_CACHE_BYTES)]_vars

\* C9 amended: extract_initial_messages leaves entries and byte total
\* unchanged; a call served from a cached entry makes that entry the most
\* recently used one and keeps the order of the others; any other call leaves
\* the order unchanged.
C9_InitialRefreshesHitEntry ==
    [][StepOf("initial") =>
        /\ _FULL_CACHE_BYTES' = _FULL_CACHE_BYTES
        /\ IF last'.hit
           THEN /\ EntriesAt(_FULL_CACHE, KeyRead(last')) # <<>>
                /\ _FULL_CACHE' = Others(_FULL_CACHE, KeyRead(last'))
                                      \o EntriesAt(_FULL_CACHE, KeyRead(last'))
           ELSE _FULL_CACHE' = _FULL_CACHE]_vars

\* C9 witness: an initial call was served from an entry that is now the most
\* recent of several.
C9_Witness ==
    /\ last.op = "initial" /\ last.hit /\ Len(_FULL_CACHE) > 1
    /\ _FULL_CACHE[Len(_FULL_CACHE)].k = KeyOf(blobs, last.roles)
    /\ KeyRead(last) = KeyOf(blobs, last.roles)
    /\ \E i \in 1..(Len(_FULL_CACHE) - 1) : _FULL_CACHE[i].k[3] = _blobs_stamp(blobs)

\* C10 as stated: when the cache holds a fresh entry for the requested roles,
\* so that the call is served from it, extract_initial_messages opens no
\* connection and runs no query, not even the fingerprint query.
C10_InitialHitTouchesNoStore ==
    (last.op = "initial" /\ Unbounded(last.max_blobs) /\ last.hit) =>
        (last.conns = 0 /\ last.queries = <<>>)

\* C10 amended: when the cache holds a fresh entry for the requested roles,
\* the entry of the fingerprint the call reads, extract_initial_messages with
\* N > 0 and max_blobs=None opens one read-only connection and runs the
\* fingerprint query on it, and runs no row query, reads no blob and decodes
\* no JSON.
C10_InitialHitRunsFingerprintOnly ==
    (last.op = "initial" /\ Unbounded(last.max_blobs) /\ last.max_messages[1] > 0
        /\ last.hit) =>
        /\ last.conns = 1
        /\ RanQuery(last, Q_STAMP)
        /\ NoScanDone(last)

\* C10 witness: an initial call served from the cache over a store with
\* messages, having opened a connection.
C10_Witness ==
    /\ last.op = "initial" /\ last.hit /\ Fresh(last.roles)
    /\ last.conns = 1 /\ Len(last.ret) > 0 /\ Len(blobs) > 0

(***************************************************************************)
(* Properties of the cache under concurrent callers (CacheSpec).           *)
(***************************************************************************)
\* the approximate payload size of the cache, from the messages it holds
RECURSIVE PayloadBytes(_, _)
PayloadBytes(cache, n) ==
    IF n = 0 THEN 0 ELSE PayloadBytes(cache, n - 1) + _approx_messages_bytes(cache[n].msgs)

\* the sum of the sizes stored with the entries
RECURSIVE StoredBytes(_, _)
StoredBytes(cache, n) == IF n = 0 THEN 0 ELSE StoredBytes(cache, n - 1) + cache[n].b

\* the position of k in an order of keys, 0 where it is absent
PosIn(order, k) == MinOr({i \in 1..Len(order) : order[i] = k}, 0)

\* lines outside the with blocks: not in a function, or waiting for the lock
OutsideLock(pc) == pc \in {0, 294, 306, 258}

\* C11: in every state where no thread is inside the cache lock (so after
\* every put has returned) the cache holds at most _FULL_CACHE_MAX_ENTRIES
\* entries and the approximate payload of its entries, len(role) + len(text)
\* + 32 per message, is at most _FULL_CACHE_MAX_BYTES; the same under the
\* scaled-down limits.
C11_CacheWithinLimits ==
    _FULL_CACHE_LOCK = None =>
        /\ Len(_FULL_CACHE) <= limits[1]
        /\ PayloadBytes(_FULL_CACHE, Len(_FULL_CACHE)) <= limits[2]
        /\ _FULL_CACHE_BYTES <= limits[2]

\* a put is about to evict for the byte limit alone
C11_Witness ==
    \E t \in Threads :
        /\ threads[t].pc = 315
        /\ Len(_FULL_CACHE) <= limits[1]
        /\ PayloadBytes(_FULL_CACHE, Len(_FULL_CACHE)) > limits[2]

\* C12: every eviction takes the entry that was hit or put least recently
\* among the entries present: each entry that stays was hit or put after the
\* last hit or put of the evicted one.
C12_EvictsLeastRecentlyUsed ==
    [][\A t \in Threads :
           (threads[t].pc = 315 /\ threads'[t].pc = 316) =>
               /\ PosIn(touched, threads'[t].tmp[1].k) # 0
               /\ \A j \in 1..Len(_FULL_CACHE') :
                      PosIn(touched, threads'[t].tmp[1].k) < PosIn(touched, _FULL_CACHE'[j].k)]_vars

\* with the cache one short of full, the oldest entry was hit or put again
\* and the put of two new keys has evicted the second oldest instead
C12_Witness ==
    \E t \in Threads :
        /\ threads[t].pc = 316
        /\ threads[t].tmp[1].k = CacheKey(2)
        /\ KeyIndex(_FULL_CACHE, CacheKey(1)) # 0
        /\ Len(_FULL_CACHE) = _FULL_CACHE_MAX_ENTRIES

\* C13: a thread is past the "with _FULL_CACHE_LOCK" of its function only
\* while it holds the lock, and whenever no thread holds the lock the running
\* byte total equals the sum of the sizes stored with the entries present.
C13_CacheNeverTorn ==
    /\ \A t \in Threads : ~OutsideLock(threads[t].pc) => _FULL_CACHE_LOCK = Some(t)
    /\ _FULL_CACHE_LOCK = None =>
           _FULL_CACHE_BYTES = StoredBytes(_FULL_CACHE, Len(_FULL_CACHE))

\* the byte total and the entries disagree inside a put or a clear while
\* another thread waits for the lock
C13_Witness ==
    /\ _FULL_CACHE_LOCK # None
    /\ _FULL_CACHE_BYTES # StoredBytes(_FULL_CACHE, Len(_FULL_CACHE))
    /\ \E t \in Threads : threads[t].pc \in {294, 306, 258}

(***************************************************************************)
(* Degenerate limits.                                                      *)
(***************************************************************************)
NonPositive(arg) == arg # None /\ arg[1] <= 0

\* C16: an extraction called with max_messages <= 0 returns [] and opens no
\* connection, runs no statement, reads no row, does not look the cache up
\* and leaves the cache and its byte count as they were.
C16_NoAccessForNonPositiveMessages ==
    [][(last'.op \in {"recent", "initial"} /\ NonPositive(last'.max_messages))
           => /\ last'.ret = <<>>
              /\ last'.conns = 0
              /\ last'.queries = <<>>
              /\ last'.rows_read = 0
              /\ last'.loads = 0
              /\ ~last'.looked /\ ~last'.hit /\ ~last'.put
              /\ _FULL_CACHE' = _FULL_CACHE
              /\ _FULL_CACHE_BYTES' = _FULL_CACHE_BYTES]_vars

\* a call with a negative max_messages on a store with messages, its history cached
C16_Witness ==
    /\ IsCall
    /\ last.max_messages = Some(0 - Negatives)
    /\ last.max_blobs = None
    /\ History(blobs, last.roles) # <<>>
    /\ Fresh(last.roles)
    /\ last.ret = <<>>

\* C17: an extraction called with max_blobs <= 0 and max_messages > 0 returns
\* [] with no store access: it opens no connection and executes no statement.
C17_NoAccessForNonPositiveBlobs ==
    (IsCall /\ NonPositive(last.max_blobs) /\ Positive(last.max_messages))
        => /\ last.ret = <<>>
           /\ last.conns = 0
           /\ last.queries = <<>>

(***************************************************************************)
(* The early stop of a from-start extraction, against the stream of        *)
(* objects the extractor iterates over: per row, the role-anchored objects *)
(* or, where there is none, the balanced ones.                             *)
(***************************************************************************)
BlobObjects(scan) ==
    IF ~scan.prefilter THEN <<>>
    ELSE IF Len(scan.anchored.ys) > 0 THEN scan.anchored.keys
    ELSE scan.embedded.keys

RowObjects(r, keys) == [k \in 1..Len(keys) |-> [row |-> r, key |-> keys[k]]]

RECURSIVE ObjectStream(_, _, _)
ObjectStream(rows, roles, r) ==
    IF r = 0 THEN <<>>
    ELSE ObjectStream(rows, roles, r - 1) \o RowObjects(r, BlobObjects(Scanned(rows[r], roles, ExtractFrames)))

\* the distinct messages among the first p objects of a stream
MessagesIn(stream, p) ==
    Dedup(PairsOf(SelectSeq([k \in 1..p |-> stream[k].key], LAMBDA key : key # None)))

\* the first object that completes n distinct messages; 0 where none does
StopAt(stream, n) == MinOr({p \in 1..Len(stream) : Len(MessagesIn(stream, p)) >= n}, 0)

ScannedFromStart ==
    /\ last.op = "initial"
    /\ Positive(last.max_messages)
    /\ ~NonPositive(last.max_blobs)
    /\ ~last.hit

StoppedAs(rows, stream, p) ==
    IF p = 0
    THEN /\ last.objs = Len(stream)
         /\ last.rows_read = Len(rows)
         /\ last.ret = MessagesIn(stream, Len(stream))
    ELSE /\ last.objs = p
         /\ last.rows_read = stream[p].row
         /\ last.ret = MessagesIn(stream, p)

\* C18: a from-start extraction bounded to max_messages stops at the object
\* that completes max_messages distinct messages: it consumes no later object
\* of that blob, reads no later row, returns exactly the messages met up to
\* there, and never more than max_messages of them.
C18_StopsAtLimit ==
    ScannedFromStart =>
        /\ Len(last.ret) <= last.max_messages[1]
        /\ StoppedAs(SelectRows(blobs, last.max_blobs, TRUE),
                     ObjectStream(SelectRows(blobs, last.max_blobs, TRUE), last.roles,
                                  Len(SelectRows(blobs, last.max_blobs, TRUE))),
                     StopAt(ObjectStream(SelectRows(blobs, last.max_blobs, TRUE), last.roles,
                                         Len(SelectRows(blobs, last.max_blobs, TRUE))),
                            last.max_messages[1]))

\* the scan stopped inside the first of two rows, with an object of that row
\* and a whole row left
C18_Witness ==
    /\ ScannedFromStart
    /\ last.max_blobs = None
    /\ Len(blobs) = 2
    /\ Len(last.ret) = last.max_messages[1]
    /\ last.rows_read = 1
    /\ last.objs < Len(BlobObjects(Scanned(blobs[1], last.roles, ExtractFrames)))

(***************************************************************************)
(* The public read functions on a store that fails, on any meta table,     *)
(* and on a root blob of many objects.                                     *)
(***************************************************************************)
ReadOps == {"recent", "initial", "meta", "preview", "meta_and_preview"}

\* [] / None / (None, None) / (None, None, None)
EmptyResult(op) ==
    CASE op \in {"recent", "initial"} -> <<>>
      [] op = "meta" -> None
      [] op = "preview" -> <<None, None>>
      [] op = "meta_and_preview" -> <<None, None, None>>

\* the store is missing, no read-only connection could be opened, or a
\* statement raised on the last connection the call used
StoreFailed ==
    \/ ~last.fault.exists
    \/ last.conns = 0
    \/ last.errors # {}

\* C14: every public read operation returns its empty result and does not
\* raise when the store is missing, cannot be opened read-only, or any query
\* against it (fingerprint, rows, meta, blob-by-id) fails.
C14_FailureGivesEmptyResult ==
    (last.op \in ReadOps /\ StoreFailed)
        => /\ last.raised = ""
           /\ last.ret = EmptyResult(last.op)

\* C15: read_chat_meta never raises, whatever the meta table holds: its
\* result is a metadata record or None.
C15_ReadChatMetaNeverRaises ==
    last.op = "meta"
        => /\ last.raised = ""
           /\ \/ last.ret = None
              \/ last.ret[1].agent_id # <<>>

\* the last message of each blob of the vocabulary with every object scanned
WholeBlobTable ==
    [b \in StoreBlobs |->
        LastMessage(_iter_embedded_json_objects(b, Len(b) + 1, PreviewFrames + 1).ys)]

PreviewPair(msg) == <<Some(msg[1]), Some(msg[2])>>

\* the recent extraction bounded to 200 blobs and 1 message, as a preview
RecentPreview(msgs) == IF msgs = <<>> THEN <<None, None>> ELSE PreviewPair(msgs[Len(msgs)])

ExpectedPreview(blob) ==
    IF blob # None /\ blob[1] # <<>> /\ WholeBlobTable[blob[1]] # None
    THEN PreviewPair(WholeBlobTable[blob[1]][1])
    ELSE RecentPreview(_extract_messages_from_connection(blobs, Some(1), Some(200),
                                                         <<USER, ASSISTANT>>, FALSE, PreviewFrames + 1).ret)

\* C19: on a store that does not fail, extract_last_message_preview returns
\* the last message, in document order, of the blob named by the id, however
\* many objects the blob holds; where that blob is absent or has no message
\* it returns the last message of the recent extraction over 200 blobs, and
\* (None, None) where that is empty.
C19_PreviewIsLastMessageOfBlob ==
    (last.op = "preview" /\ last.fault = NoFault)
        => last.ret = ExpectedPreview(_read_blob_from_connection(blobs, last.args[1]))

(***************************************************************************)
(* C20.  What the buffer holds is stated from its tokens and from the      *)
(* spans between a '{' and a '}', not from the scanners' walks.            *)
(***************************************************************************)
Positions(data, c) == {k \in 0..(Len(data) - 1) : At(data, k) = c}

\* r is json.loads of a span: a dict with an accepted str role and a content key
AcceptedObject(r, roles) ==
    /\ r.ok
    /\ IsDict(r.v)
    /\ IsStr(Get(r.v, <<"r", "o", "l", "e">>))
    /\ InTuple(Get(r.v, <<"r", "o", "l", "e">>).v, roles)
    /\ HasKey(r.v, <<"c", "o", "n", "t", "e", "n", "t">>)

\* '{' and the role marker occur in data, and no span of it decodes to a JSON
\* object with an accepted role and a content field
PlainText(data, roles) ==
    /\ Contains(data, <<LBRACE>>)
    /\ Contains(data, ROLE_MARKER)
    /\ \A s \in Positions(data, LBRACE), e \in Positions(data, RBRACE) :
           s < e /\ Utf8Ok(Slice(data, s, e + 1))
               => ~AcceptedObject(json_loads(Slice(data, s, e + 1), SpanFrames), roles)

\* the k-th token is a message object with an accepted role
AcceptedToken(k) ==
    \/ scanner.tokens[k] = MSG_USER_A /\ InTuple(USER, scanner.roles)
    \/ scanner.tokens[k] = MSG_ASSISTANT_B /\ InTuple(ASSISTANT, scanner.roles)

TokenPair(k) == IF scanner.tokens[k] = MSG_USER_A THEN <<USER, <<"a">>>> ELSE <<ASSISTANT, <<"b">>>>

\* where the k-th token starts in the buffer
Offset(k) == Len(Join(scanner.tokens, k - 1))

YieldedAt(g, start) == \E y \in 1..Len(g.ys) : g.ys[y].start = start

\* C20: no exception leaves either scanner, whatever the buffer; a buffer in
\* which '{' and the role marker are plain text gives the extraction no
\* message; and a message object is yielded by each scanner, and reaches the
\* extraction's result, whatever undecodable or non-message candidates
\* surround it.
C20_BadCandidatesAreSkipped ==
    /\ scanner.raised = ""
    /\ \A k \in 1..Len(scanner.tokens) :
           AcceptedToken(k) =>
               /\ scanner.anchored.done /\ scanner.max_objects = MAX_OBJECTS
                      => YieldedAt(scanner.anchored, Offset(k))
               /\ scanner.embedded.done /\ scanner.max_objects = MAX_OBJECTS
                      => YieldedAt(scanner.embedded, Offset(k))
               /\ scanner.out # None
                      => \E m \in 1..Len(scanner.out[1]) : scanner.out[1][m] = TokenPair(k)
    /\ scanner.out # None /\ PlainText(scanner.data, scanner.roles) => scanner.out[1] = <<>>

\* both exceptions were caught on the way to a message that follows them
C20_Witness ==
    /\ scanner.caught = {"UnicodeDecodeError", "JSONDecodeError"}
    /\ \E k \in 2..Len(scanner.tokens) : AcceptedToken(k)
    /\ scanner.out # None
    /\ scanner.out[1] # <<>>

(***************************************************************************)
(* C21.  A token's object is out of the role-anchored scan's reach when    *)
(* the scan's bounds end before its opening brace.                         *)
(***************************************************************************)
\* json.loads of each token alone
TokenObjects == [t \in Tokens |-> IF Utf8Ok(t) THEN json_loads(t, SpanFrames) ELSE JFail]

\* the k-th token is a message object the extractor accepts: the pair it gives
TokenMessage(k) ==
    IF AcceptedObject(TokenObjects[scanner.tokens[k]], scanner.roles)
    THEN MessageKey(TokenObjects[scanner.tokens[k]].v, scanner.roles)
    ELSE None

\* the braces from the k-th token's opening brace (excluded) to its role marker
BracesBeforeMarker(k) ==
    {p \in Positions(scanner.data, LBRACE) :
         p > Offset(k) /\ p <= Find(scanner.data, ROLE_MARKER, Offset(k))}

\* the opening brace of the k-th token is not among the MAX_CANDIDATES braces
\* nearest to its marker, is more than BACK_WINDOW bytes before the marker, or
\* opens a span of more than MAX_OBJ_LEN bytes
Unreachable(k) ==
    /\ TokenMessage(k) # None
    /\ \/ Cardinality(BracesBeforeMarker(k)) >= MAX_CANDIDATES
       \/ Find(scanner.data, ROLE_MARKER, Offset(k)) - Offset(k) > BACK_WINDOW
       \/ Len(scanner.tokens[k]) > MAX_OBJ_LEN

InResult(pair) == \E m \in 1..Len(scanner.out[1]) : scanner.out[1][m] = pair

\* C21: a message object that the role-anchored scan cannot reach within its
\* bounds is in the extraction's result, whatever else its blob contains.
C21_UnreachableMessageExtracted ==
    \A k \in 1..Len(scanner.tokens) :
        Unreachable(k) /\ scanner.out # None => InResult(TokenMessage(k)[1])

\* the same for a blob that holds nothing but the unreachable object and text
\* that is no message
C21_UnreachableAloneExtracted ==
    \A k \in 1..Len(scanner.tokens) :
        (/\ Unreachable(k)
         /\ scanner.out # None
         /\ \A j \in 1..Len(scanner.tokens) : j # k => scanner.tokens[j] = <<RBRACE>>)
            => /\ InResult(TokenMessage(k)[1])
               /\ scanner.anchored.ys = <<>>

(***************************************************************************)
(* C22.  Whether an object opens at a brace is stated from the decodes of  *)
(* the spans that start there, not from the scanner's walk.                *)
(***************************************************************************)
\* the closing braces e for which data[start:e+1] decodes to a JSON object
ObjectEnds(data, start) ==
    {e \in Positions(data, RBRACE) :
         /\ e > start
         /\ Utf8Ok(Slice(data, start, e + 1))
         /\ json_loads(Slice(data, start, e + 1), EmbeddedFrames).ok
         /\ IsDict(json_loads(Slice(data, start, e + 1), EmbeddedFrames).v)}

\* the k-th token alone decodes to a JSON object
ObjectToken(k) == TokenObjects[scanner.tokens[k]].ok /\ IsDict(TokenObjects[scanner.tokens[k]].v)

\* what one iteration that starts in g and ends in g2 does with the first '{'
\* at or after g.i
EmbeddedResumes(data, g, g2, start) ==
    IF g.i >= Len(data) \/ g.found >= scanner.max_objects \/ start = -1
    THEN g2.done /\ g2.ys = g.ys
    ELSE IF ObjectEnds(data, start) = {}
    THEN g2.ys = g.ys /\ g2.i = start + 1 /\ ~g2.done
    ELSE /\ Len(g2.ys) = Len(g.ys) + 1
         /\ SubSeq(g2.ys, 1, Len(g.ys)) = g.ys
         /\ g2.ys[Len(g2.ys)].start = start
         /\ g2.ys[Len(g2.ys)].end = Min(ObjectEnds(data, start)) + 1
         /\ g2.ys[Len(g2.ys)].obj = json_loads(Slice(data, start, Min(ObjectEnds(data, start)) + 1), EmbeddedFrames).v
         /\ g2.i = Min(ObjectEnds(data, start)) + 1
         /\ ~g2.done

\* C22: an iteration of the balanced-object scanner whose '{' opens no
\* decodable object (the span fails to decode or parse, is no object, or never
\* closes) yields nothing and resumes one byte after that '{'; one whose '{'
\* opens an object yields it and resumes right after its span; so every
\* object token is yielded at its own offset, also inside a failed span.
C22_ResumesAfterFailedBrace ==
    [][scanner'.embedded # scanner.embedded
           => /\ EmbeddedResumes(scanner.data, scanner.embedded, scanner'.embedded,
                                 Find(scanner.data, <<LBRACE>>, scanner.embedded.i))
              /\ (scanner'.embedded.done /\ scanner.max_objects = MAX_OBJECTS)
                     => \A k \in 1..Len(scanner.tokens) :
                            ObjectToken(k) => YieldedAt(scanner'.embedded, Offset(k))]_vars

\* an object was yielded from inside a span that closed and failed to parse:
\* '{' then the object then '}'
C22_Witness ==
    /\ scanner.embedded.done
    /\ scanner.max_objects = MAX_OBJECTS
    /\ Len(scanner.tokens) = 3
    /\ scanner.tokens[1] = <<LBRACE>>
    /\ ObjectToken(2)
    /\ scanner.tokens[3] = <<RBRACE>>
    /\ YieldedAt(scanner.embedded, 1)
    /\ scanner.embedded.loads > Len(scanner.embedded.ys)

(***************************************************************************)
(* C23.  What a matcher should hold before it reads the byte at j is       *)
(* stated from the tags of the object's bytes.                             *)
(***************************************************************************)
\* the tag of the byte at buffer position j
TagAt(j) == matcher.tags[j - matcher.start + 1]

\* the braces outside strings among the object's bytes before position j
BracesBefore(j, brace) ==
    Cardinality({p \in matcher.start..(j - 1) : TagAt(p) = "s" /\ At(matcher.data, p) = brace})

\* a matcher that has not found the closing brace is inside the object, with
\* the flags and the depth the bytes read so far call for
Matching(w) ==
    /\ w.j <= matcher.end
    /\ w.in_str = (TagAt(w.j) \in {"c", "x", "e"})
    /\ w.esc = (TagAt(w.j) = "x")
    /\ w.depth = BracesBefore(w.j, LBRACE) - BracesBefore(w.j, RBRACE)
    /\ w.j > matcher.start => w.depth >= 1

\* C23: both brace matchers count '{' and '}' outside string literals only (a
\* quote toggles the in-string flag unless escape-pending, a backslash in a
\* string makes exactly the next byte escape-pending), the depth stays at 1 or
\* more until the match, and the match is the object's own closing brace,
\* whatever braces, quotes and backslashes its strings hold.
C23_MatchersFindOwnClosingBrace ==
    /\ IF matcher.embedded.hit = -1 THEN Matching(matcher.embedded)
       ELSE matcher.embedded.hit = matcher.end
    /\ IF matcher.balanced.hit = -1 THEN Matching(matcher.balanced)
       ELSE /\ matcher.balanced.hit = matcher.end
            /\ _scan_balanced_object_end(matcher.data, matcher.start, MAX_OBJ_LEN) = matcher.end
            /\ RunEmbeddedWalk(matcher.data, WalkFrom(matcher.start),
                               Len(matcher.data) - matcher.start).hit = matcher.end

\* both matched a nested object whose string holds '}' after an escaped quote,
\* with bytes after the object
C23_Witness ==
    /\ matcher.embedded.hit = matcher.end
    /\ matcher.balanced.hit = matcher.end
    /\ matcher.end < Len(matcher.data) - 1
    /\ \E p \in (matcher.start + 1)..(matcher.end - 1) :
           /\ TagAt(p) = "x"
           /\ At(matcher.data, p) = QUOTE
           /\ TagAt(p + 1) = "c"
           /\ At(matcher.data, p + 1) = RBRACE
    /\ \E p \in (matcher.start + 1)..(matcher.end - 1) :
           TagAt(p) = "s" /\ At(matcher.data, p) = LBRACE

(***************************************************************************)
(* C24.  The marker occurrence an iteration of the role-anchored scanner   *)
(* works on is the first one at or after its position.                     *)
(***************************************************************************)
\* the object opened at s encloses the marker at role_pos and is acceptable
EnclosingMessage(data, s, role_pos, roles) ==
    \E e \in ObjectEnds(data, s) :
        /\ s < role_pos
        /\ role_pos + Len(ROLE_MARKER) <= e
        /\ AcceptedObject(json_loads(Slice(data, s, e + 1), SpanFrames), roles)

\* y was yielded for the marker occurrence at role_pos
AcceptedFor(data, y, role_pos, roles) ==
    /\ y.start < role_pos
    /\ role_pos + Len(ROLE_MARKER) < y.end
    /\ EnclosingMessage(data, y.start, role_pos, roles)
    /\ \A s \in Positions(data, LBRACE) :
           y.start < s /\ s < role_pos => ~EnclosingMessage(data, s, role_pos, roles)

\* C24: an object the role-anchored scanner yields for a marker occurrence
\* encloses it (opening brace before the marker, matching closing brace after
\* it) and is the innermost such object with an accepted role and a content
\* field.
C24_AcceptedObjectEnclosesMarker ==
    [][Len(scanner'.anchored.ys) > Len(scanner.anchored.ys)
           => AcceptedFor(scanner.data, scanner'.anchored.ys[Len(scanner'.anchored.ys)],
                          Find(scanner.data, ROLE_MARKER, scanner.anchored.i),
                          scanner.roles)]_vars

\* what holds instead: the yielded object encloses the marker as C24 says, or
\* it opens at the nearest acceptable brace before the marker and has closed
\* before the marker
C24_EnclosesOrPrecedes ==
    [][Len(scanner'.anchored.ys) > Len(scanner.anchored.ys)
           => \/ AcceptedFor(scanner.data, scanner'.anchored.ys[Len(scanner'.anchored.ys)],
                             Find(scanner.data, ROLE_MARKER, scanner.anchored.i),
                             scanner.roles)
              \/ /\ scanner'.anchored.ys[Len(scanner'.anchored.ys)].end
                        <= Find(scanner.data, ROLE_MARKER, scanner.anchored.i)
                 /\ ObjectEnds(scanner.data, scanner'.anchored.ys[Len(scanner'.anchored.ys)].start)
                        = {scanner'.anchored.ys[Len(scanner'.anchored.ys)].end - 1}]_vars

(***************************************************************************)
(* C25.                                                                    *)
(***************************************************************************)
\* an iteration from g to g2 that worked on the occurrence at found_at left
\* the loop or moved the position to at least past bytes beyond it
Advanced(g, g2, found_at, past) ==
    \/ g2.done
    \/ /\ found_at >= g.i
       /\ g2.i >= found_at + past
       /\ g2.i > g.i
       /\ g2.i <= Len(scanner.data)

EveryIterationAdvances ==
    /\ scanner'.anchored # scanner.anchored
           => Advanced(scanner.anchored, scanner'.anchored,
                       Find(scanner.data, ROLE_MARKER, scanner.anchored.i), Len(ROLE_MARKER))
    /\ scanner'.embedded # scanner.embedded
           => Advanced(scanner.embedded, scanner'.embedded,
                       Find(scanner.data, <<LBRACE>>, scanner.embedded.i), 1)
    /\ Len(scanner'.anchored.ys) <= scanner.max_objects
    /\ Len(scanner'.embedded.ys) <= scanner.max_objects
    \* the iteration that ends the loop is one more than the bytes allow
    /\ scanner'.iterations.anchored <= (Len(scanner.data) \div Len(ROLE_MARKER)) + 1
    /\ scanner'.iterations.embedded <= Len(scanner.data) + 1
    \* the loop is left only by an iteration, and stays left
    /\ scanner.anchored.done => scanner'.anchored = scanner.anchored
    /\ scanner.embedded.done => scanner'.embedded = scanner.embedded

\* C25: every iteration of either scanner ends the loop or moves the scan
\* position strictly forward within the buffer (past the opening brace it
\* tried or the span it yielded; past the marker occurrence it worked on), so
\* the number of iterations is bounded by the buffer's length, and no more
\* than max_objects objects are yielded.
C25_ScannersTerminate == [][EveryIterationAdvances]_vars

\* both scanners ended on a buffer with a marker that no object encloses and
\* a brace that opens no object, one of them stopped by max_objects
C25_Witness ==
    /\ scanner.anchored.done
    /\ scanner.embedded.done
    /\ scanner.iterations.anchored > 1
    /\ scanner.iterations.embedded > FewObjects + 1
    /\ scanner.max_objects = FewObjects
    /\ Len(scanner.embedded.ys) = FewObjects
    /\ scanner.embedded.i < Len(scanner.data)
    /\ scanner.embedded.loads > Len(scanner.embedded.ys)
    /\ \E k \in 1..Len(scanner.tokens) : scanner.tokens[k] \in {ROLE_MARKER, SPAN_NOT_JSON}

(***************************************************************************)
(* C26.                                                                    *)
(***************************************************************************)
\* a (role, text) pair a caller may be given for the roles it asked for
Presentable(msg, roles) ==
    /\ InTuple(msg[1], roles)
    /\ msg[2] # <<>>
    /\ msg[2][1] \notin StripWs
    /\ msg[2][Len(msg[2])] \notin StripWs
    /\ ~(msg[1] = USER /\ StartsAt(msg[2], USER_INFO_TAG, 0))

\* C26: every message in a result of extract_recent_messages and
\* extract_initial_messages has a requested role and a non-empty text without
\* leading or trailing whitespace, and is no user message that starts with
\* <user_info>; an object without text gives no message.
C26_ResultsArePresentable ==
    IsCall => \A m \in 1..Len(last.ret) : Presentable(last.ret[m], last.roles)

\* a result from a blob that also holds a padded text, an injected block, a
\* blank content and a message of a role that was not asked for
C26_Witness ==
    /\ IsCall
    /\ last.roles = <<USER>>
    /\ last.rows_read > 0
    /\ blobs = <<BLOB_AIC>>
    /\ last.ret = <<<<USER, <<"a">>>>>>

(***************************************************************************)
(* C27.                                                                    *)
(***************************************************************************)
\* C27: on a blob that holds '{' and the role marker the extractor runs the
\* balanced-object scanner exactly when the role-anchored scanner yielded no
\* object; after a yield it looks at the anchored scanner's objects only,
\* also when it dropped every one of them; a blob without '{' or without the
\* marker is scanned by neither.
C27_FallbackOnlyWhenNothingYielded ==
    scanner.out # None =>
        IF Contains(scanner.data, <<LBRACE>>) /\ Contains(scanner.data, ROLE_MARKER)
        THEN /\ scanner.fallbacks = (IF scanner.anchored.ys = <<>> THEN 1 ELSE 0)
             /\ scanner.max_objects = MAX_OBJECTS
                    => scanner.objs = (IF scanner.anchored.ys = <<>>
                                       THEN Len(scanner.embedded.ys)
                                       ELSE Len(scanner.anchored.ys))
        ELSE scanner.fallbacks = 0 /\ scanner.objs = 0

\* the anchored scanner yielded an injected block only, which was dropped; the
\* balanced-object scanner would have yielded a message the anchored one
\* cannot reach, and was not run
C27_Witness ==
    /\ scanner.out = Some(<<>>)
    /\ scanner.anchored.ys # <<>>
    /\ scanner.fallbacks = 0
    /\ scanner.objs = Len(scanner.anchored.ys)
    /\ \E k \in 1..Len(scanner.tokens) :
           scanner.tokens[k] = MSG_USER_FAR /\ YieldedAt(scanner.embedded, Offset(k))

(***************************************************************************)
(* C28.  The table only grows, so the states it went through are the      *)
(* prefixes of its rows.                                                   *)
(***************************************************************************)
\* the full extraction of the table as it was when it held n rows
FullAt(n) ==
    _extract_messages_from_connection(TableAt(n), None, None, RaceRoles, FALSE, ExtractFrames).ret

RecentUnboundedReturned ==
    /\ last.op = "recent"
    /\ last.max_messages = None
    /\ last.by # 0

\* C28: with appends and unbounded extract_recent_messages calls of several
\* threads interleaved step by step, every call returns the full extraction
\* of a state the table was in between the call's fingerprint query and its
\* return, never of an older one.
C28_CallReturnsAStateItOverlapped ==
    RecentUnboundedReturned
        => \E n \in last.read_at..last.returned_at : last.ret = FullAt(n)

\* a call was served an entry that another call stored under a fingerprint
\* read before an append and filled by a scan after it: what it returned is
\* not the extraction of the state whose fingerprint it read
C28_Witness ==
    /\ RecentUnboundedReturned
    /\ last.hit
    /\ last.ret # FullAt(last.read_at)
    /\ last.ret = FullAt(last.returned_at)

(***************************************************************************)
(* C29.  The states the store went through are the prefixes of its rows;   *)
(* those it went through before a call are the ones up to the rows it held *)
(* at the call's fingerprint query.                                        *)
(***************************************************************************)
\* what extract_initial_messages(n, max_blobs=None) scans out of the store as
\* it was when it held k rows
HeadAt(k, n, roles) ==
    _extract_messages_from_connection(SubSeq(blobs, 1, k), Some(n), None, roles, TRUE, ExtractFrames).ret

InitialUnbounded ==
    /\ last.op = "initial"
    /\ Unbounded(last.max_blobs)
    /\ Positive(last.max_messages)

\* C29: once the store held enough for extract_initial_messages(N,
\* max_blobs=None) to return N messages, every later such call returns the
\* same N messages, after any appends and any recent calls in between or
\* during it, whether a cache entry serves it or it scans.
C29_HeadStableUnderAppends ==
    InitialUnbounded =>
        \A k \in 0..last.read_at :
            Len(HeadAt(k, last.max_messages[1], last.roles)) = last.max_messages[1]
                => last.ret = HeadAt(k, last.max_messages[1], last.roles)

\* the same with every thread making either call and connections that fail
\* (RaceSpec): a call of extract_initial_messages returns the head of a state
\* it overlapped, and the head that was complete when it read the fingerprint
InitialReturnsAHeadItOverlapped ==
    (last.op = "initial" /\ last.by # 0) =>
        /\ \E k \in last.read_at..last.returned_at :
               last.ret = HeadAt(k, last.max_messages[1], RaceRoles)
        /\ \A k \in 0..last.read_at :
               Len(HeadAt(k, last.max_messages[1], RaceRoles)) = last.max_messages[1]
                   => last.ret = HeadAt(k, last.max_messages[1], RaceRoles)

\* a call served from the entry a recent call stored after an append that
\* lengthened the history, the head having been complete before the append
C29_Witness ==
    /\ InitialUnbounded
    /\ last.hit
    /\ Len(blobs) = 2
    /\ last.max_messages[1] = 2
    /\ Len(HeadAt(1, 2, last.roles)) = 2
    /\ last.ret = HeadAt(1, 2, last.roles)
    /\ Len(UncachedFull(last.roles)) > 2

(***************************************************************************)
(* C30.  A put returns at the loop test of line 314 when it is false; the  *)
(* byte budget is limits[2], 32 MiB or the scaled-down cache's.            *)
(***************************************************************************)
\* thread t leaves _full_cache_put in this step
PutReturns(t) ==
    /\ threads[t].op = "put"
    /\ threads[t].pc = 314
    /\ threads'[t] = NotCalling

\* _full_cache_get(k) on the cache a put of <<k, msgs>> has left
GetAfterPut(t) ==
    _full_cache_get(_FULL_CACHE', threads[t].k[1], threads[t].k[2], threads[t].k[3])

PutLeavesEntryOrNothing ==
    \A t \in Threads :
        PutReturns(t) =>
            IF _approx_messages_bytes(threads[t].msgs) <= limits[2]
            THEN /\ _FULL_CACHE' # <<>>
                 /\ _FULL_CACHE'[Len(_FULL_CACHE')].k = threads[t].k
                 /\ _FULL_CACHE'[Len(_FULL_CACHE')].msgs = threads[t].msgs
                 /\ GetAfterPut(t).hit
                 /\ GetAfterPut(t).msgs = threads[t].msgs
            ELSE /\ _FULL_CACHE' = <<>>
                 /\ _FULL_CACHE_BYTES' = 0
                 /\ ~GetAfterPut(t).hit

\* C30: when _full_cache_put(k, v) returns, k is present and the most
\* recently used entry, so that a get(k) then hits and returns v, exactly
\* when v's approximate size is within the byte budget; a put of a larger
\* payload leaves the cache empty with a byte total of 0.
C30_PutKeepsEntryUnlessOversize == [][PutLeavesEntryOrNothing]_vars

\* a put of an oversize payload about to return: the last entry its loop
\* evicted is the one it inserted, and nothing is left
C30_Witness ==
    \E t \in Threads :
        /\ threads[t].op = "put"
        /\ threads[t].pc = 314
        /\ threads[t].b > limits[2]
        /\ threads[t].tmp # None
        /\ threads[t].tmp[1].k = threads[t].k
        /\ threads[t].tmp[1].msgs = threads[t].msgs
        /\ _FULL_CACHE = <<>>
        /\ _FULL_CACHE_BYTES = 0
        /\ touched = <<>>

====
